---- MODULE Spec2Model ----
(***************************************************************************)
(* A model of the activity-stream gateway and ingester:                    *)
(*   - the incoming request pipeline of core/app/app_server.py             *)
(*     (authenticator, authorizer, JSON error conversion, handlers),       *)
(*   - the Redis lock of core/app/app_outgoing.py (acquire_and_keep_lock), *)
(*   - the per-feed full ingest of core/app/app_outgoing.py (ingest_feed). *)
(* Hashes and MACs are symbolic: a hash is the tuple of what it covers, so *)
(* two MACs are equal exactly when every signed field is equal.            *)
(***************************************************************************)
EXTENDS Integers, Sequences, FiniteSets, TLC

VARIABLES
    now,        \* the wall clock, in seconds (time.time() of server and Redis)
    redis,      \* the Redis keys: key -> [value, expires]; expires = 0: no key
    served,     \* history: per nonce key, what became of the request that last set it
    req,        \* per connection: the request being processed
    pc,         \* per connection: the position of its task in the middlewares
    resp,       \* per connection: the response sent
    obs,        \* history: per connection, what the request went through
    lockpc,     \* per ingester process: position in run_outgoing_application
    lockobs,    \* history: per process, what its lock tasks did
    lapsed,     \* history: the lock key expired while a process relied on it
    indexes,    \* Elasticsearch: the activities_* indexes that exist
    aliased,    \* Elasticsearch: the indexes the `activities` alias points to
    docs,       \* Elasticsearch: per index, the pages bulk-inserted into it
    refreshed,  \* Elasticsearch: the indexes refreshed since their last insert
    suppc,      \* position of the ingest_feeds task
    supdel,     \* ingest_feeds: its indexes_to_delete
    feedpc,     \* per feed: position of its ingest_feed task
    feedidx,    \* per feed: index_name of the running ingest_feed attempt
    feedhref,   \* per feed: the href of the page being ingested
    feeddel,    \* per feed: indexes_to_delete of the running attempt
    swaps,      \* history: per feed, the alias swaps its task completed
    nextid,     \* the source of fresh index names (timestamp + random suffix)
    feedsleep,  \* per feed: seconds left of the sleep before its task is re-run
    failures,   \* history: per feed, the attempts an exception ended
    repeatpc,   \* repeat_even_on_exception: position of the loop and its coroutine
    repeatsleep,\* repeat_even_on_exception: seconds left of asyncio.sleep
    repeatobs,  \* history: what the loop went through
    es_bulk_items,    \* the items of a feed page, converted for the bulk insert
    es_bulk_contents,  \* the payload es_bulk makes of them
    es_post,    \* the bulk request sent to Elasticsearch
    check_inputs,  \* handle_get_check: what Redis, Elasticsearch and the clock give it
    check_response,  \* handle_get_check: its response
    es_metrics,  \* poll_metrics: what Elasticsearch answers each query of this poll
    metricspc,  \* poll_metrics: where the poll is
    metrics_feed,  \* poll_metrics: the feed the loop is at
    metrics,  \* poll_metrics: the gauges this poll has set
    metrics_written,  \* poll_metrics: what this poll wrote to the key 'metrics'
    ravenpc,  \* raven_reporter: where the request is in the middlewares
    raven_request,  \* raven_reporter: the request
    raven_escaped,  \* raven_reporter: the exception that left the handler
    raven_raised,  \* raven_reporter: the exception on its way up
    raven_captured,  \* raven_reporter: the calls of captureException
    raven_response  \* convert_errors_to_json: the response made of it

servervars == <<now, redis, served, req, pc, resp, obs>>
lockvars == <<lockpc, lockobs, lapsed>>
esvars == <<indexes, aliased, docs, refreshed, suppc, supdel,
           feedpc, feedidx, feedhref, feeddel, swaps, nextid, feedsleep, failures>>
repeatvars == <<repeatpc, repeatsleep, repeatobs>>
bulkvars == <<es_bulk_items, es_bulk_contents, es_post>>
checkvars == <<check_inputs, check_response>>
metricsvars == <<es_metrics, metricspc, metrics_feed, metrics, metrics_written>>
ravenvars == <<ravenpc, raven_request, raven_escaped, raven_raised, raven_captured, raven_response>>
vars == <<now, redis, served, req, pc, resp, obs, lockpc, lockobs, lapsed,
          indexes, aliased, docs, refreshed, suppc, supdel,
          feedpc, feedidx, feedhref, feeddel, swaps, nextid, feedsleep, failures,
          repeatpc, repeatsleep, repeatobs, es_bulk_items, es_bulk_contents, es_post,
          check_inputs, check_response,
          es_metrics, metricspc, metrics_feed, metrics, metrics_written,
          ravenpc, raven_request, raven_escaped, raven_raised, raven_captured, raven_response>>

----------------------------------------------------------------------------
(* Texts of app_server.py                                                  *)

NOT_PROVIDED == "Authentication credentials were not provided."
INCORRECT == "Incorrect authentication credentials."
MISSING_CONTENT_TYPE == "Content-Type header was not set. It must be set for authentication, even if as the empty string."
MISSING_X_FORWARDED_PROTO == "The X-Forwarded-Proto header was not set."
NOT_AUTHORIZED == "You are not authorized to perform this action."
UNKNOWN_ERROR == "An unknown error occurred."

(* core/app.py *)
NONCE_EXPIRE == 120

(* mohawk.Receiver is called without timestamp_skew_in_seconds: its        *)
(* default of 60 seconds applies.                                          *)
timestamp_skew_in_seconds == 60

(* The configuration read from the environment (core/app.py:50-55), with   *)
(* the credentials of the tests: one key pair may POST, the other GET.     *)
incoming_key_pairs ==
    << [key_id |-> "id-1", secret_key |-> "secret-1", permissions |-> {"POST"}],
       [key_id |-> "id-3", secret_key |-> "secret-3", permissions |-> {"GET"}] >>

ip_whitelist == {"1.2.3.4"}

----------------------------------------------------------------------------
(* Bounds of the model                                                     *)

MaxTime == 180

Conns == {"c1", "c2"}
Methods == {"GET", "POST"}
Nonces == {"n1", "n2"}
TickSteps == {60, 119}
SkewOffsets == {0 - 61, 0 - 60, 0, 60, 61}

Abs(x) == IF x < 0 THEN 0 - x ELSE x

----------------------------------------------------------------------------
(* Hawk, as mohawk computes it                                             *)

calculate_payload_hash(content, content_type) ==
    <<"hash", content, content_type>>

calculate_mac(key, method, url, ts, nonce, hash) ==
    <<"mac", key, method, url, ts, nonce, hash>>

(* The client side: the Authorization header of a request signed with      *)
(* (key_id, secret_key) over url, method, content and content_type.        *)
hawk_auth_header(key_id, secret_key, url, method, content, content_type, ts, nonce) ==
    [id |-> key_id, ts |-> ts, nonce |-> nonce,
     hash |-> calculate_payload_hash(content, content_type),
     mac |-> calculate_mac(secret_key, method, url, ts, nonce,
                           calculate_payload_hash(content, content_type))]

NoAuthorization ==
    [id |-> "", ts |-> 0, nonce |-> "",
     hash |-> <<"hash", "", "">>, mac |-> <<"mac", "", "", "", 0, "", <<"hash", "", "">> >>]

----------------------------------------------------------------------------
(* Redis                                                                   *)

NonceKeys == {<<"nonce", kp.key_id, n>> : kp \in {incoming_key_pairs[i] : i \in 1..Len(incoming_key_pairs)}, n \in Nonces}
LockKey == <<"lock">>

(* The public scroll ids random_url_safe(8) may give, the private scroll   *)
(* ids of the backend, and the key a public id is stored under.            *)
PublicScrollIds == {"u1", "u2"}
PrivateScrollIds == {"s1", "s2"}
ScrollKey(public_scroll_id) == <<"private-scroll-id", public_scroll_id>>
ScrollKeys == {ScrollKey(u) : u \in PublicScrollIds}

(* The key get_feeds_status reads the status of a feed from (app_server.py *)
(* lines 221-223), one per unique id of the configuration.                 *)
FeedStatusKey(feed_id) == <<"feed-status", feed_id>>
FeedStatusKeys == {FeedStatusKey(f) : f \in {"feed-a", "feed-b"}}

RedisKeys == NonceKeys \cup {LockKey} \cup ScrollKeys \cup FeedStatusKeys

NoKey == [value |-> "", expires |-> 0]
EmptyRedis == [k \in RedisKeys |-> NoKey]

(* A key whose time to live never ran out.                                 *)
RedisExists_forever(store, key, t) == store[key].expires > 0

(* A key exists until its time to live has run out.                        *)
RedisExists(store, key, t) == store[key].expires > t

(* SET key value EX ttl NX: sets the key only when it does not exist.      *)
RedisSetNxEx(store, key, value, ttl, t) ==
    IF RedisExists(store, key, t)
    THEN [response |-> "nil", store |-> store]
    ELSE [response |-> "OK",
          store |-> [store EXCEPT ![key] = [value |-> value, expires |-> t + ttl]]]

(* SET key value EX ttl: sets the key, whatever it held.                   *)
RedisSetEx(store, key, value, ttl, t) ==
    [store EXCEPT ![key] = [value |-> value, expires |-> t + ttl]]

(* EXPIRE key ttl: 1 when the key exists and its timeout was set, else 0.  *)
RedisExpire(store, key, ttl, t) ==
    IF RedisExists(store, key, t)
    THEN [response |-> 1, store |-> [store EXCEPT ![key].expires = t + ttl]]
    ELSE [response |-> 0, store |-> store]

(* Redis drops the keys whose time to live has run out.                    *)
RedisPurge(store, t) ==
    [k \in RedisKeys |-> IF RedisExists(store, k, t) THEN store[k] ELSE NoKey]

(* app_redis.set_nonce_nx: SET nonce_key '1' EX nonce_expire NX            *)
set_nonce_nx(store, nonce_key, nonce_expire, t) ==
    RedisSetNxEx(store, nonce_key, "1", nonce_expire, t)

(* app_redis.set_private_scroll_id: the private id under the public one,   *)
(* for expire seconds.                                                     *)
set_private_scroll_id(store, public_scroll_id, private_scroll_id, expire, t) ==
    RedisSetEx(store, ScrollKey(public_scroll_id), private_scroll_id, expire, t)

(* app_redis.get_private_scroll_id: the private id stored under the public *)
(* one, "" when there is none.                                             *)
get_private_scroll_id(store, public_scroll_id, t) ==
    IF public_scroll_id \in PublicScrollIds /\ RedisExists(store, ScrollKey(public_scroll_id), t)
    THEN store[ScrollKey(public_scroll_id)].value
    ELSE ""

----------------------------------------------------------------------------
(* Requests                                                                *)

(* What a client may sign with: a configured pair, a configured id with    *)
(* another pair's secret, and an id that is not configured.                *)
SigningKeys ==
    { [id |-> "id-1", secret |-> "secret-1"], [id |-> "id-3", secret |-> "secret-3"],
      [id |-> "id-1", secret |-> "secret-3"], [id |-> "id-unknown", secret |-> "secret-1"] }

Contents == {"", "content"}
ContentTypes == {"", "application/json"}

(* X-Forwarded-For as a list of addresses; <<>> stands for no header.      *)
XForwardedFors ==
    { <<>>, <<"1.2.3.4">>, <<"3.4.5.6", "1.2.3.4">>, <<"1.2.3.4", "3.4.5.6">>,
      <<"1.2.3.4", "3.4.5.6", "3.4.5.6">> }

(* The URL of POST/GET /v1/ differs only in its scheme here.               *)
Url(scheme) == <<scheme, "127.0.0.1:8080", "/v1/">>

NoRequest ==
    [method |-> "", headers |-> {}, proto |-> "", authorization |-> NoAuthorization,
     content_type |-> "", content |-> "", xff |-> <<>>, permissions |-> {},
     public_scroll_id |-> ""]

(* A request as the server receives it.  proto and ctype are "none" for a  *)
(* header that is not sent.  The request is to /v1/; public_scroll_id is   *)
(* the match_info of a request to /v1/{public_scroll_id}.                  *)
MkRequest(method, proto, ctype, xff, has_auth, auth) ==
    [method |-> method,
     headers |-> (IF proto = "none" THEN {} ELSE {"X-Forwarded-Proto"})
                 \cup (IF ctype = "none" THEN {} ELSE {"Content-Type"})
                 \cup (IF has_auth THEN {"Authorization"} ELSE {})
                 \cup (IF xff = <<>> THEN {} ELSE {"X-Forwarded-For"}),
     proto |-> IF proto = "none" THEN "" ELSE proto,
     authorization |-> IF has_auth THEN auth ELSE NoAuthorization,
     content_type |-> IF ctype = "none" THEN "" ELSE ctype,
     content |-> "",
     xff |-> xff,
     permissions |-> {},
     public_scroll_id |-> ""]

(* Every Authorization header a client may build at time t with a nonce    *)
(* of ns: signed over http://.../v1/, any method, content and type.        *)
Authorizations(t, ns) ==
    { hawk_auth_header(k.id, k.secret, Url("http"), m, c, ct, t + off, n) :
        k \in SigningKeys, m \in Methods, c \in Contents, ct \in ContentTypes,
        off \in SkewOffsets, n \in ns }

(* Every request of the model at time t: any method, any subset of the     *)
(* headers, any Authorization header, signed for this request or not.      *)
Requests(t, ns) ==
    { MkRequest(m, p, ct, x, TRUE, a) :
        m \in Methods, p \in {"none", "http", "https"},
        ct \in {"none"} \cup ContentTypes, x \in XForwardedFors,
        a \in Authorizations(t, ns) }
    \cup
    { MkRequest(m, p, ct, x, FALSE, NoAuthorization) :
        m \in Methods, p \in {"none", "http", "https"},
        ct \in {"none"} \cup ContentTypes, x \in XForwardedFors }

(* The searches of the client that may GET: a new search, or the next page *)
(* of a public scroll id, one that was never given out among them.         *)
ScrollRequests(t, ns) ==
    { [MkRequest("GET", "http", "", <<"1.2.3.4", "3.4.5.6">>, TRUE,
                 hawk_auth_header("id-3", "secret-3", Url("http"), "GET", "", "", t, n))
          EXCEPT !.public_scroll_id = u] :
        n \in ns, u \in {"", "u0"} \cup PublicScrollIds }

(* The well-formed requests of a configured client: all headers, signed    *)
(* over what is sent, any method, timestamp and nonce.                     *)
SignedRequests(t, ns) ==
    { MkRequest(m, "http", "", <<"1.2.3.4", "3.4.5.6">>, TRUE,
                hawk_auth_header(incoming_key_pairs[i].key_id, incoming_key_pairs[i].secret_key,
                                 Url("http"), m, "", "", t + off, n)) :
        i \in 1..Len(incoming_key_pairs), m \in Methods, off \in SkewOffsets, n \in ns }

----------------------------------------------------------------------------
(* app_server.py: the authenticator                                        *)

(* lookup_credentials, were it to fall back on the first configured pair.  *)
lookup_credentials_default(passed_access_key_id) ==
    LET matching_key_pairs ==
            SelectSeq(incoming_key_pairs, LAMBDA kp : kp.key_id = passed_access_key_id)
        key_pairs == IF matching_key_pairs = <<>> THEN incoming_key_pairs
                     ELSE matching_key_pairs
    IN  [found |-> TRUE,
         id |-> key_pairs[1].key_id,
         key |-> key_pairs[1].secret_key,
         permissions |-> key_pairs[1].permissions]

(* lookup_credentials: the first configured pair with this key id.         *)
lookup_credentials(passed_access_key_id) ==
    LET matching_key_pairs ==
            SelectSeq(incoming_key_pairs, LAMBDA kp : kp.key_id = passed_access_key_id)
    IN  IF matching_key_pairs = <<>>
        THEN [found |-> FALSE, id |-> "", key |-> "", permissions |-> {}]
        ELSE [found |-> TRUE,
              id |-> matching_key_pairs[1].key_id,
              key |-> matching_key_pairs[1].secret_key,
              permissions |-> matching_key_pairs[1].permissions]

(* mohawk: the timestamp of the header against the receiver's clock.       *)
within_skew_strict(ts, t) == Abs(ts - t) < timestamp_skew_in_seconds
within_skew(ts, t) == Abs(ts - t) <= timestamp_skew_in_seconds

(* mohawk.Receiver(lookup_credentials, Authorization, url, method,         *)
(* content=, content_type=, seen_nonce=never): the credentials are found,  *)
(* the MAC over the request as received is the header's, the payload hash  *)
(* is the header's, and the timestamp is within the skew.  ok = FALSE is   *)
(* a HawkFail.                                                             *)
Receiver_ignoring_content_type(request, t) ==
    LET header == request.authorization
        credentials == lookup_credentials(header.id)
        url == Url(request.proto)
    IN  [ok |-> /\ credentials.found
                /\ header.mac = calculate_mac(credentials.key, request.method, url,
                                              header.ts, header.nonce, header.hash)
                /\ within_skew(header.ts, t),
         credentials |-> credentials,
         nonce |-> header.nonce]
Receiver(request, t) ==
    LET header == request.authorization
        credentials == lookup_credentials(header.id)
        url == Url(request.proto)
    IN  [ok |-> /\ credentials.found
                /\ header.mac = calculate_mac(credentials.key, request.method, url,
                                              header.ts, header.nonce, header.hash)
                /\ header.hash = calculate_payload_hash(request.content,
                                                        request.content_type)
                /\ within_skew(header.ts, t),
         credentials |-> credentials,
         nonce |-> header.nonce]

nonce_key_of(request) ==
    <<"nonce", lookup_credentials(request.authorization.id).id, request.authorization.nonce>>

(* Line 104, were the test the other way round.                            *)
seen_nonce_when_ok(redis_response) == redis_response = "OK"

(* Line 104: seen_nonce = not redis_response == b'OK'                      *)
seen_nonce_never(redis_response) == FALSE
seen_nonce(redis_response) == ~(redis_response = "OK")

(* The header presence checks of authenticate, in the order of the code:   *)
(* the text of the first that fails, "" when all three headers are there.  *)
missing_header_auth_first(request) ==
    IF "Authorization" \notin request.headers THEN NOT_PROVIDED
    ELSE IF "X-Forwarded-Proto" \notin request.headers THEN MISSING_X_FORWARDED_PROTO
    ELSE IF "Content-Type" \notin request.headers THEN MISSING_CONTENT_TYPE
    ELSE ""
missing_header(request) ==
    IF "X-Forwarded-Proto" \notin request.headers THEN MISSING_X_FORWARDED_PROTO
    ELSE IF "Authorization" \notin request.headers THEN NOT_PROVIDED
    ELSE IF "Content-Type" \notin request.headers THEN MISSING_CONTENT_TYPE
    ELSE ""

(* Line 114: request.method not in request['permissions']                  *)
method_permitted_always(request) == TRUE
method_permitted(request) == request.method \in request.permissions

----------------------------------------------------------------------------
(* Exceptions and responses                                                *)

HTTPUnauthorized(text) == [http |-> TRUE, status_code |-> 401, text |-> text]
HTTPForbidden(text) == [http |-> TRUE, status_code |-> 403, text |-> text]
HTTPNotFound(text) == [http |-> TRUE, status_code |-> 404, text |-> text]
OtherException(text) == [http |-> FALSE, status_code |-> 0, text |-> text]

(* A response that is 200 whatever status it is given.                     *)
json_response_200(data, status) == [status |-> 200, body |-> data]

(* json_response, lines 257-260.                                           *)
json_response(data, status) == [status |-> status, body |-> data]

(* The wrapper, were it to catch HTTP exceptions alone: nothing is made of *)
(* another exception.                                                      *)
convert_errors_to_json_http_only(exception) ==
    IF exception.http
    THEN json_response(<<"details", exception.text>>, exception.status_code)
    ELSE [status |-> 0, body |-> <<"", "">>]

(* convert_errors_to_json: the response made of an exception.              *)
convert_errors_to_json(exception) ==
    IF exception.http
    THEN json_response(<<"details", exception.text>>, exception.status_code)
    ELSE json_response(<<"details", UNKNOWN_ERROR>>, 500)

NoResponse == [status |-> 0, body |-> <<"", "">>]
NotServed == [status |-> 0, handled |-> FALSE, method |-> ""]
NoBackend == [path |-> "", scroll_id |-> "", status |-> 0, body |-> <<"", "">>,
              returned |-> "", at |-> 0]
NoObs == [mac_verified |-> FALSE, nonce_written |-> FALSE, authenticated |-> FALSE,
          replay |-> FALSE, handled |-> FALSE, prior |-> NotServed, expired |-> FALSE,
          stored |-> "", backend |-> NoBackend]

(* What the search backend may answer a search or a scroll continuation    *)
(* with: a page and the scroll id to go on with, a last page, an error of  *)
(* its own, or no answer at all.                                           *)
BackendAnswers ==
    { [raised |-> FALSE, status |-> 200, body |-> <<"orderedItems", "page">>, scroll_id |-> x] :
        x \in PrivateScrollIds \cup {""} }
    \cup
    { [raised |-> FALSE, status |-> 401, body |-> <<"elasticsearch", "error">>, scroll_id |-> ""],
      [raised |-> TRUE, status |-> 0, body |-> <<"", "">>, scroll_id |-> ""] }

(* The time a public scroll id is kept, from the configuration.            *)
pagination_expire == 15

SCROLL_ID_NOT_FOUND == "Scroll ID not found."

(* app_elasticsearch.es_search_new_scroll: the path of a new search.       *)
es_search_new_scroll ==
    [raised |-> FALSE, path |-> "/activities/_search", scroll_id |-> ""]

(* app_elasticsearch.es_search_existing_scroll: the path of the            *)
(* continuation of the scroll stored under the public id of the URL; a     *)
(* public id that is not stored raises HTTPNotFound.                       *)
es_search_existing_scroll(store, public_scroll_id, t) ==
    LET private_scroll_id == get_private_scroll_id(store, public_scroll_id, t)
    IN  IF private_scroll_id = ""
        THEN [raised |-> TRUE, path |-> "", scroll_id |-> ""]
        ELSE [raised |-> FALSE, path |-> "/_search/scroll", scroll_id |-> private_scroll_id]

(* The URL of a public id that was not stored.                             *)
to_public_scroll_url_not_stored(store, public_scroll_id, private_scroll_id, t) ==
    [store |-> store, url |-> <<"/v1/", public_scroll_id>>]

(* to_public_scroll_url, lines 179-184: the private id is stored under a   *)
(* new public id, whose URL is returned.                                   *)
to_public_scroll_url(store, public_scroll_id, private_scroll_id, t) ==
    [store |-> set_private_scroll_id(store, public_scroll_id, private_scroll_id,
                                     pagination_expire, t),
     url |-> <<"/v1/", public_scroll_id>>]

(* app_elasticsearch.es_search: the status and the body of the backend,    *)
(* the scroll id it returned given to the caller as the next URL.          *)
es_search(store, answer, public_scroll_id, t) ==
    IF answer.scroll_id = ""
    THEN [results |-> answer.body, status |-> answer.status, store |-> store]
    ELSE LET public == to_public_scroll_url(store, public_scroll_id, answer.scroll_id, t)
         IN  [results |-> answer.body \o <<"next", public.url>>,
              status |-> answer.status,
              store |-> public.store]

----------------------------------------------------------------------------
(* The request pipeline: authenticate -> authorize -> handler, under       *)
(* convert_errors_to_json.  One action per stretch between two awaits.     *)

(* The response leaves: the task of the request is done.  The history of   *)
(* the nonce entry this request wrote, if any, learns what became of it.   *)
Reply(c, response, handled) ==
    /\ resp' = [resp EXCEPT ![c] = response]
    /\ pc' = [pc EXCEPT ![c] = "done"]
    /\ served' = IF obs[c].nonce_written
                 THEN [served EXCEPT ![nonce_key_of(req[c])] =
                          [status |-> response.status, handled |-> handled,
                           method |-> req[c].method]]
                 ELSE served

(* A client sends a request: any request of a configured client.           *)
Receive(c) ==
    /\ pc[c] = "idle"
    /\ \E r \in SignedRequests(now, {"n1"}) :
          req' = [req EXCEPT ![c] = r]
    /\ pc' = [pc EXCEPT ![c] = "authenticate"]
    /\ UNCHANGED <<now, redis, served, resp, obs, lockvars, esvars, ravenvars, metricsvars, checkvars, repeatvars, bulkvars>>

(* authenticate, were it to look at the permissions of the credentials as  *)
(* soon as the MAC is verified, before the nonce is recorded.              *)
Authenticate_authorizing_first(c) ==
    /\ pc[c] = "authenticate"
    /\ IF missing_header(req[c]) # ""
       THEN /\ Reply(c, convert_errors_to_json(HTTPUnauthorized(missing_header(req[c]))), FALSE)
            /\ UNCHANGED obs
       ELSE IF ~Receiver(req[c], now).ok
       THEN /\ Reply(c, convert_errors_to_json(HTTPUnauthorized(INCORRECT)), FALSE)
            /\ UNCHANGED obs
       ELSE IF req[c].method \notin Receiver(req[c], now).credentials.permissions
       THEN /\ Reply(c, convert_errors_to_json(HTTPForbidden(NOT_AUTHORIZED)), FALSE)
            /\ obs' = [obs EXCEPT ![c].mac_verified = TRUE]
       ELSE /\ obs' = [obs EXCEPT ![c].mac_verified = TRUE]
            /\ pc' = [pc EXCEPT ![c] = "set_nonce"]
            /\ UNCHANGED <<resp, served>>
    /\ UNCHANGED <<now, redis, req, lockvars, esvars, ravenvars, metricsvars, checkvars, repeatvars, bulkvars>>

(* authenticate, lines 42-59 and 89-98: the presence checks, then the      *)
(* mohawk.Receiver over the request as received.                           *)
Authenticate(c) ==
    /\ pc[c] = "authenticate"
    /\ IF missing_header(req[c]) # ""
       THEN /\ Reply(c, convert_errors_to_json(HTTPUnauthorized(missing_header(req[c]))), FALSE)
            /\ UNCHANGED obs
       ELSE IF ~Receiver(req[c], now).ok
       THEN /\ Reply(c, convert_errors_to_json(HTTPUnauthorized(INCORRECT)), FALSE)
            /\ UNCHANGED obs
       ELSE /\ obs' = [obs EXCEPT ![c].mac_verified = TRUE]
            /\ pc' = [pc EXCEPT ![c] = "set_nonce"]
            /\ UNCHANGED <<resp, served>>
    /\ UNCHANGED <<now, redis, req, lockvars, esvars, ravenvars, metricsvars, checkvars, repeatvars, bulkvars>>

(* The replay check, were it a read of the nonce key followed, after an    *)
(* await, by a write of it.                                                *)
CheckNonce_read_then_write(c) ==
    \/ /\ pc[c] = "set_nonce"
       /\ obs' = [obs EXCEPT ![c].replay = RedisExists(redis, nonce_key_of(req[c]), now)]
       /\ pc' = [pc EXCEPT ![c] = "write_nonce"]
       /\ UNCHANGED <<now, redis, served, req, resp, lockvars, esvars, ravenvars, metricsvars, checkvars, repeatvars, bulkvars>>
    \/ /\ pc[c] = "write_nonce"
       /\ redis' = RedisSetEx(redis, nonce_key_of(req[c]), "1", NONCE_EXPIRE, now)
       /\ IF obs[c].replay
          THEN /\ Reply(c, convert_errors_to_json(HTTPUnauthorized(INCORRECT)), FALSE)
               /\ UNCHANGED <<obs, req>>
          ELSE /\ obs' = [obs EXCEPT ![c].authenticated = TRUE, ![c].nonce_written = TRUE]
               /\ req' = [req EXCEPT ![c].permissions =
                             Receiver(req[c], now).credentials.permissions]
               /\ pc' = [pc EXCEPT ![c] = "authorize"]
               /\ UNCHANGED <<resp, served>>
       /\ UNCHANGED <<now, lockvars, esvars, ravenvars, metricsvars, checkvars, repeatvars, bulkvars>>

(* _authenticate_or_raise, lines 100-108, and authenticate, lines 61-66:   *)
(* the nonce is set if absent; a nonce that was there is a replay.         *)
CheckNonce(c) ==
    /\ pc[c] = "set_nonce"
    /\ LET receiver == Receiver(req[c], now)
           nonce_key == nonce_key_of(req[c])
           redis_result == set_nonce_nx(redis, nonce_key, NONCE_EXPIRE, now)
       IN  /\ redis' = redis_result.store
           /\ IF seen_nonce(redis_result.response)
              THEN /\ Reply(c, convert_errors_to_json(HTTPUnauthorized(INCORRECT)), FALSE)
                   /\ obs' = [obs EXCEPT ![c].replay = RedisExists(redis, nonce_key, now),
                                         ![c].prior = served[nonce_key],
                                         ![c].expired = (redis[nonce_key].expires <= now)]
                   /\ UNCHANGED req
              ELSE /\ obs' = [obs EXCEPT ![c].authenticated = TRUE,
                                         ![c].replay = RedisExists(redis, nonce_key, now),
                                         ![c].prior = served[nonce_key],
                                         ![c].expired = (redis[nonce_key].expires <= now),
                                         ![c].nonce_written = (redis_result.response = "OK")]
                   /\ req' = [req EXCEPT ![c].permissions = receiver.credentials.permissions]
                   /\ pc' = [pc EXCEPT ![c] = "authorize"]
                   /\ served' = IF redis_result.response = "OK"
                                THEN [served EXCEPT ![nonce_key] =
                                         [NotServed EXCEPT !.method = req[c].method]]
                                ELSE served
                   /\ UNCHANGED resp
    /\ UNCHANGED <<now, lockvars, esvars, ravenvars, metricsvars, checkvars, repeatvars, bulkvars>>

(* authorize, lines 113-117.                                               *)
Authorize(c) ==
    /\ pc[c] = "authorize"
    /\ IF ~method_permitted(req[c])
       THEN Reply(c, convert_errors_to_json(HTTPForbidden(NOT_AUTHORIZED)), FALSE)
       ELSE /\ pc' = [pc EXCEPT ![c] = "handle"]
            /\ UNCHANGED <<resp, served>>
    /\ UNCHANGED <<now, redis, req, obs, lockvars, esvars, ravenvars, metricsvars, checkvars, repeatvars, bulkvars>>

(* History: what Redis holds, not yet expired, under the public scroll id  *)
(* of the URL of the request, "" for nothing.                              *)
StoredUnder(c) ==
    LET key == ScrollKey(req[c].public_scroll_id)
    IN  IF key \in ScrollKeys /\ redis[key].expires > now THEN redis[key].value ELSE ""

(* The route handler.  handle_post (line 159) for POST /v1/.  For GET,     *)
(* _handle_get.handle (lines 174-190): the path of the search or of the    *)
(* scroll continuation, the answer of the backend, the public scroll id    *)
(* stored for the next page, and the status and body returned; an          *)
(* exception is left to convert_errors_to_json.                            *)
Handle(c) ==
    /\ pc[c] = "handle"
    /\ IF req[c].method = "POST"
       THEN /\ obs' = [obs EXCEPT ![c].handled = TRUE]
            /\ redis' = redis
            /\ Reply(c, json_response(<<"secret", "to-be-hidden">>, 200), TRUE)
       ELSE LET path_query ==
                    IF req[c].public_scroll_id = ""
                    THEN es_search_new_scroll
                    ELSE es_search_existing_scroll(redis, req[c].public_scroll_id, now)
            IN  IF path_query.raised
                THEN /\ obs' = [obs EXCEPT ![c].handled = TRUE, ![c].stored = StoredUnder(c)]
                     /\ redis' = redis
                     /\ Reply(c, convert_errors_to_json(HTTPNotFound(SCROLL_ID_NOT_FOUND)), TRUE)
                ELSE \E answer \in BackendAnswers, public_scroll_id \in PublicScrollIds :
                        LET sent == [path |-> path_query.path,
                                     scroll_id |-> path_query.scroll_id,
                                     status |-> answer.status, body |-> answer.body,
                                     returned |-> answer.scroll_id, at |-> now]
                            result == es_search(redis, answer, public_scroll_id, now)
                        IN  /\ obs' = [obs EXCEPT ![c].handled = TRUE, ![c].backend = sent,
                                                  ![c].stored = StoredUnder(c)]
                            /\ IF answer.raised
                               THEN /\ redis' = redis
                                    /\ Reply(c, convert_errors_to_json(OtherException("backend")), TRUE)
                               ELSE /\ redis' = result.store
                                    /\ Reply(c, json_response(result.results, result.status), TRUE)
    /\ UNCHANGED <<now, req, lockvars, esvars, ravenvars, metricsvars, checkvars, repeatvars, bulkvars>>

(* The task of the request ends.                                           *)
Finish(c) ==
    /\ pc[c] = "done"
    /\ pc' = [pc EXCEPT ![c] = "idle"]
    /\ req' = [req EXCEPT ![c] = NoRequest]
    /\ resp' = [resp EXCEPT ![c] = NoResponse]
    /\ obs' = [obs EXCEPT ![c] = NoObs]
    /\ UNCHANGED <<now, redis, served, lockvars, esvars, ravenvars, metricsvars, checkvars, repeatvars, bulkvars>>

(* Time passes; Redis drops the keys that have expired.                    *)
Tick ==
    /\ \E d \in TickSteps :
          /\ now + d <= MaxTime
          /\ now' = now + d
    /\ redis' = RedisPurge(redis, now')
    /\ UNCHANGED <<served, req, pc, resp, obs, lockvars, esvars, ravenvars, metricsvars, checkvars, repeatvars, bulkvars>>

----------------------------------------------------------------------------
(* app_outgoing.py: acquire_and_keep_lock, in each ingester process        *)

Processes == {"p1", "p2"}
MaxLockTime == 4

(* Lines 113-115 *)
ttl == 2
aquire_interval == 1
extend_interval == 1

NoLockObs ==
    [acquired |-> FALSE, lost |-> FALSE, reported |-> FALSE,
     expire_after_loss |-> FALSE, ingested |-> FALSE, ingest_after_loss |-> FALSE,
     set_nx_after_acquired |-> FALSE,
     setter |-> FALSE, extended_other |-> FALSE, extended_other_after_loss |-> FALSE]

(* The tasks of a process, were they created before acquire() returns.     *)
PastAcquire_from_the_start(p) == lockpc[p].at # "exited"

(* A process is past acquire(): its refresh, ingest and metrics tasks are  *)
(* created (lines 136, 144, 333) and run until the process ends.           *)
PastAcquire(p) == lockpc[p].at \in {"extend", "extend_wait"}

(* Line 122: response == b'OK'                                             *)
lock_acquired_always(response) == TRUE
lock_acquired(response) == response = "OK"

(* Line 132: response != 1                                                 *)
lock_lost(response) == response # 1

(* async_repeat_until_cancelled: where a wrapped coroutine goes on after   *)
(* it returned or raised; an exception is reported and the coroutine is    *)
(* run again after the exception interval.                                 *)
async_repeat_until_cancelled(outcome) ==
    IF outcome = "cancelled" THEN "stop"
    ELSE IF outcome = "raised" THEN "wait_then_rerun"
    ELSE "rerun"

(* acquire, lines 118-126: one turn of the loop.                           *)
Acquire(p) ==
    /\ lockpc[p].at = "acquire"
    /\ now >= lockpc[p].wake
    /\ LET result == RedisSetNxEx(redis, LockKey, "1", ttl, now)
       IN  /\ redis' = result.store
           /\ IF lock_acquired(result.response)
              THEN /\ lockpc' = [lockpc EXCEPT ![p] = [at |-> "extend", wake |-> now + extend_interval]]
                   /\ lockobs' = [q \in Processes |->
                          IF q = p
                          THEN [lockobs[p] EXCEPT !.acquired = TRUE,
                                                  !.set_nx_after_acquired = lockobs[p].acquired,
                                                  !.setter = TRUE]
                          ELSE [lockobs[q] EXCEPT !.setter = FALSE]]
              ELSE /\ lockpc' = [lockpc EXCEPT ![p] = [at |-> "acquire", wake |-> now + aquire_interval]]
                   /\ lockobs' = [lockobs EXCEPT ![p].set_nx_after_acquired = lockobs[p].acquired]
    /\ UNCHANGED <<now, served, req, pc, resp, obs, lapsed, esvars, ravenvars, metricsvars, checkvars, repeatvars, bulkvars>>

(* extend_forever, lines 128-133, after its sleep: EXPIRE, and the         *)
(* exception when the key was not there, which the wrapper reports.        *)
ExtendLock_reacquire(p) ==
    /\ lockpc[p].at = "extend"
    /\ now >= lockpc[p].wake
    /\ LET result == RedisExpire(redis, LockKey, ttl, now)
       IN  /\ redis' = result.store
           /\ IF lock_lost(result.response)
              THEN /\ lockpc' = [lockpc EXCEPT ![p] = [at |-> "acquire", wake |-> now]]
                   /\ lockobs' = [lockobs EXCEPT ![p].lost = TRUE, ![p].reported = TRUE,
                                                 ![p].expire_after_loss = lockobs[p].lost]
              ELSE /\ lockpc' = [lockpc EXCEPT ![p] = [at |-> "extend", wake |-> now + extend_interval]]
                   /\ lockobs' = [lockobs EXCEPT
                          ![p].expire_after_loss = lockobs[p].lost,
                          ![p].extended_other = @ \/ ~lockobs[p].setter,
                          ![p].extended_other_after_loss =
                              @ \/ (lockobs[p].lost /\ ~lockobs[p].setter)]
    /\ UNCHANGED <<now, served, req, pc, resp, obs, lapsed, esvars, ravenvars, metricsvars, checkvars, repeatvars, bulkvars>>
ExtendLock(p) ==
    /\ lockpc[p].at = "extend"
    /\ now >= lockpc[p].wake
    /\ LET result == RedisExpire(redis, LockKey, ttl, now)
           outcome == IF lock_lost(result.response) THEN "raised" ELSE "returned"
       IN  /\ redis' = result.store
           /\ IF async_repeat_until_cancelled(outcome) = "wait_then_rerun"
              THEN /\ lockpc' = [lockpc EXCEPT ![p] = [at |-> "extend_wait", wake |-> now + extend_interval]]
                   /\ lockobs' = [lockobs EXCEPT ![p].lost = TRUE, ![p].reported = TRUE,
                                                 ![p].expire_after_loss = lockobs[p].lost]
              ELSE /\ lockpc' = [lockpc EXCEPT ![p] = [at |-> "extend", wake |-> now + extend_interval]]
                   /\ lockobs' = [lockobs EXCEPT
                          ![p].expire_after_loss = lockobs[p].lost,
                          ![p].extended_other = @ \/ ~lockobs[p].setter,
                          ![p].extended_other_after_loss =
                              @ \/ (lockobs[p].lost /\ ~lockobs[p].setter)]
    /\ UNCHANGED <<now, served, req, pc, resp, obs, lapsed, esvars, ravenvars, metricsvars, checkvars, repeatvars, bulkvars>>

(* The wrapper, were it to run acquire() again after a loss.               *)
RerunExtend_from_acquire(p) ==
    /\ lockpc[p].at = "extend_wait"
    /\ now >= lockpc[p].wake
    /\ lockpc' = [lockpc EXCEPT ![p] = [at |-> "acquire", wake |-> now]]
    /\ UNCHANGED <<now, redis, served, req, pc, resp, obs, lockobs, lapsed, esvars, ravenvars, metricsvars, checkvars, repeatvars, bulkvars>>

(* The wrapper of extend_forever has slept its exception interval (line    *)
(* 138) and runs extend_forever again, which sleeps (line 130).            *)
RerunExtend(p) ==
    /\ lockpc[p].at = "extend_wait"
    /\ now >= lockpc[p].wake
    /\ lockpc' = [lockpc EXCEPT ![p] = [at |-> "extend", wake |-> now + extend_interval]]
    /\ UNCHANGED <<now, redis, served, req, pc, resp, obs, lockobs, lapsed, esvars, ravenvars, metricsvars, checkvars, repeatvars, bulkvars>>

(* A step of the ingest tasks of the process (lines 75-77, 144-172): they  *)
(* exist from the return of acquire_and_keep_lock on, and nothing in the   *)
(* lock tasks stops them.                                                  *)
IngestStep(p) ==
    /\ PastAcquire(p)
    /\ lockobs' = [lockobs EXCEPT ![p].ingested = TRUE,
                                  ![p].ingest_after_loss = lockobs[p].lost]
    /\ UNCHANGED <<now, redis, served, req, pc, resp, obs, lockpc, lapsed, esvars, ravenvars, metricsvars, checkvars, repeatvars, bulkvars>>

(* The process is destroyed (a deployment replaces it).                    *)
Stop(p) ==
    /\ lockpc[p].at # "exited"
    /\ lockpc' = [lockpc EXCEPT ![p] = [at |-> "exited", wake |-> 0]]
    /\ UNCHANGED <<now, redis, served, req, pc, resp, obs, lockobs, lapsed, esvars, ravenvars, metricsvars, checkvars, repeatvars, bulkvars>>

(* A second passes.  A lock key that runs out while a process past         *)
(* acquire() is alive has lapsed.                                          *)
TickSecond ==
    /\ now + 1 <= MaxLockTime
    /\ now' = now + 1
    /\ redis' = RedisPurge(redis, now')
    /\ lapsed' = (lapsed \/ (/\ RedisExists(redis, LockKey, now)
                             /\ ~RedisExists(redis, LockKey, now')
                             /\ \E p \in Processes : PastAcquire(p)))
    /\ UNCHANGED <<served, req, pc, resp, obs, lockpc, lockobs, esvars, ravenvars, metricsvars, checkvars, repeatvars, bulkvars>>

(* A second passes, with every time kept as the seconds left from now on:  *)
(* the times to live and the sleeps run down, now stays, and no run of the *)
(* processes is too long to follow.                                        *)
SecondsLeft(seconds) == IF seconds > now THEN seconds - 1 ELSE now
Elapse(store) ==
    RedisPurge([k \in RedisKeys |-> [store[k] EXCEPT !.expires = SecondsLeft(@)]], now)

(* A second, were the lock key to outlive its time to live.                *)
ElapseSecond_lock_kept ==
    /\ lockpc' = [p \in Processes |-> [lockpc[p] EXCEPT !.wake = SecondsLeft(@)]]
    /\ lockpc' # lockpc
    /\ UNCHANGED <<now, redis, served, req, pc, resp, obs, lockobs, lapsed, esvars, ravenvars, metricsvars, checkvars, repeatvars, bulkvars>>

ElapseSecond ==
    /\ redis' = Elapse(redis)
    /\ lockpc' = [p \in Processes |-> [lockpc[p] EXCEPT !.wake = SecondsLeft(@)]]
    /\ lapsed' = (lapsed \/ (/\ RedisExists(redis, LockKey, now)
                             /\ ~RedisExists(redis', LockKey, now)
                             /\ \E p \in Processes : PastAcquire(p)))
    /\ UNCHANGED <<now, served, req, pc, resp, obs, lockobs, esvars, ravenvars, metricsvars, checkvars, repeatvars, bulkvars>>

----------------------------------------------------------------------------
(* Elasticsearch and the feeds                                             *)

(* The feeds of the configuration, and a feed that was configured by an    *)
(* earlier deployment and is not any more.                                 *)
feed_endpoints == <<"feed-a", "feed-b">>
RemovedFeeds == {"feed-x"}

feed_unique_ids(endpoints) == {endpoints[i] : i \in 1..Len(endpoints)}
Feeds == feed_unique_ids(feed_endpoints)

(* An index name activities__feed_id__<unique_id>__date__<suffix>: the     *)
(* feed it carries the marker of, and its suffix.                          *)
IndexName(feed_id, suffix) == <<feed_id, suffix>>
FeedOf(index_name) == index_name[1]

(* The indexes earlier runs may have left, and the new names of this run.  *)
MaxOldIndexes == 1
MaxNewIndexes == 3
IndexNames ==
    {IndexName(f, n) : f \in Feeds \cup RemovedFeeds, n \in 1..(MaxOldIndexes + MaxNewIndexes)}
OldIndexNames ==
    {IndexName(f, n) : f \in {"feed-a"} \cup RemovedFeeds, n \in 1..MaxOldIndexes}

(* The pages of a feed: the seed, and what next_href finds in each page.   *)
seed(feed) == "page-1"
next_href(feed, href) ==
    IF feed = "feed-a" /\ href = "page-1" THEN "page-2" ELSE ""

(* app_elasticsearch *)
get_old_index_names(all_indexes, with_alias) ==
    [without_alias |-> all_indexes \ with_alias, with_alias |-> with_alias]

indexes_matching_feeds(names, feed_ids) == {i \in names : FeedOf(i) \in feed_ids}
indexes_matching_no_feeds(names, feed_ids) == {i \in names : FeedOf(i) \notin feed_ids}

get_new_index_name(feed_id, suffix) == IndexName(feed_id, suffix)

(* One alias update: remove the alias from the indexes of the feed, add it *)
(* to index_name.  The update fails as a whole when index_name is missing. *)
add_remove_aliases_atomically(all_indexes, with_alias, index_name, feed_id) ==
    IF index_name \in all_indexes
    THEN (with_alias \ indexes_matching_feeds(with_alias, {feed_id})) \cup {index_name}
    ELSE with_alias

AliasedOf(feed_id) == indexes_matching_feeds(aliased, {feed_id})

(* delete_indexes *)
DeleteIndexes(names) ==
    /\ indexes' = indexes \ names
    /\ aliased' = aliased \ names
    /\ docs' = [i \in IndexNames |-> IF i \in names THEN <<>> ELSE docs[i]]
    /\ refreshed' = refreshed \ names

----------------------------------------------------------------------------
(* app_outgoing.py: ingest_feeds and ingest_feed                           *)

(* ingest_feeds, were it to look only at the indexes without the alias.    *)
SupervisorList_without_alias ==
    /\ suppc = "list"
    /\ LET old == get_old_index_names(indexes, aliased)
       IN  supdel' = indexes_matching_no_feeds(old.without_alias,
                                               feed_unique_ids(feed_endpoints))
    /\ suppc' = "delete"
    /\ UNCHANGED <<servervars, lockvars, ravenvars, metricsvars, checkvars, repeatvars, bulkvars, feedsleep, failures,
                   indexes, aliased, docs, refreshed,
                   feedpc, feedidx, feedhref, feeddel, swaps, nextid>>

(* ingest_feeds, lines 154-158: the indexes of no configured feed.         *)
SupervisorList ==
    /\ suppc = "list"
    /\ LET old == get_old_index_names(indexes, aliased)
       IN  supdel' = indexes_matching_no_feeds(old.without_alias \cup old.with_alias,
                                               feed_unique_ids(feed_endpoints))
    /\ suppc' = "delete"
    /\ UNCHANGED <<servervars, lockvars, ravenvars, metricsvars, checkvars, repeatvars, bulkvars, feedsleep, failures,
                   indexes, aliased, docs, refreshed,
                   feedpc, feedidx, feedhref, feeddel, swaps, nextid>>

(* ingest_feeds, lines 159-172: they are deleted, and one ingest_feed task *)
(* per configured feed is started; indexes_to_delete keeps its value while *)
(* the tasks run.                                                          *)
SupervisorDelete ==
    /\ suppc = "delete"
    /\ DeleteIndexes(supdel)
    /\ suppc' = "gather"
    /\ feedpc' = [f \in Feeds |-> "list"]
    /\ UNCHANGED <<servervars, lockvars, ravenvars, metricsvars, checkvars, repeatvars, bulkvars, feedsleep, failures,
                   supdel, feedidx, feedhref, feeddel, swaps, nextid>>

(* ingest_feed, were it to take the indexes without the alias of any feed. *)
FeedList_of_any_feed(f) ==
    /\ feedpc[f] = "list"
    /\ LET old == get_old_index_names(indexes, aliased)
       IN  feeddel' = [feeddel EXCEPT ![f] = old.without_alias]
    /\ feedpc' = [feedpc EXCEPT ![f] = "delete"]
    /\ UNCHANGED <<servervars, lockvars, ravenvars, metricsvars, checkvars, repeatvars, bulkvars, feedsleep, failures,
                   indexes, aliased, docs, refreshed, suppc, supdel,
                   feedidx, feedhref, swaps, nextid>>

(* ingest_feed, lines 186-187: the indexes of this feed without the alias. *)
FeedList(f) ==
    /\ feedpc[f] = "list"
    /\ LET old == get_old_index_names(indexes, aliased)
       IN  feeddel' = [feeddel EXCEPT ![f] = indexes_matching_feeds(old.without_alias, {f})]
    /\ feedpc' = [feedpc EXCEPT ![f] = "delete"]
    /\ UNCHANGED <<servervars, lockvars, ravenvars, metricsvars, checkvars, repeatvars, bulkvars, feedsleep, failures,
                   indexes, aliased, docs, refreshed, suppc, supdel,
                   feedidx, feedhref, swaps, nextid>>

(* ingest_feed, were it to leave the indexes without the alias.            *)
FeedDelete_nothing(f) ==
    /\ feedpc[f] = "delete"
    /\ DeleteIndexes({})
    /\ feeddel' = [feeddel EXCEPT ![f] = {}]
    /\ feedpc' = [feedpc EXCEPT ![f] = "create"]
    /\ UNCHANGED <<servervars, lockvars, ravenvars, metricsvars, checkvars, repeatvars, bulkvars, feedsleep, failures,
                   suppc, supdel, feedidx, feedhref, swaps, nextid>>

(* ingest_feed, were it to delete every index of the feed.                 *)
FeedDelete_every_index(f) ==
    /\ feedpc[f] = "delete"
    /\ DeleteIndexes(indexes_matching_feeds(indexes, {f}))
    /\ feeddel' = [feeddel EXCEPT ![f] = {}]
    /\ feedpc' = [feedpc EXCEPT ![f] = "create"]
    /\ UNCHANGED <<servervars, lockvars, ravenvars, metricsvars, checkvars, repeatvars, bulkvars, feedsleep, failures,
                   suppc, supdel, feedidx, feedhref, swaps, nextid>>

(* ingest_feed, line 190.                                                  *)
FeedDelete(f) ==
    /\ feedpc[f] = "delete"
    /\ DeleteIndexes(feeddel[f])
    /\ feeddel' = [feeddel EXCEPT ![f] = {}]
    /\ feedpc' = [feedpc EXCEPT ![f] = "create"]
    /\ UNCHANGED <<servervars, lockvars, ravenvars, metricsvars, checkvars, repeatvars, bulkvars, feedsleep, failures,
                   suppc, supdel, feedidx, feedhref, swaps, nextid>>

(* app_outgoing.py, line 51.                                               *)
EXCEPTION_INTERVAL == 60

(* The exception of one feed, were it to end the attempts of all the feeds *)
(* gathered with it.                                                       *)
FeedRaise_of_every_feed(f) ==
    /\ feedpc' = [g \in Feeds |-> "wait"]
    /\ feedhref' = [g \in Feeds |-> ""]
    /\ feedsleep' = [g \in Feeds |-> EXCEPTION_INTERVAL]
    /\ failures' = [failures EXCEPT ![f] = @ + 1]

(* The wrapper of ingest_feed: an exception ends the attempt; it is run    *)
(* again after the exception interval.                                     *)
FeedRaise(f) ==
    /\ feedpc' = [feedpc EXCEPT ![f] = "wait"]
    /\ feedhref' = [feedhref EXCEPT ![f] = ""]
    /\ feedsleep' = [feedsleep EXCEPT ![f] = EXCEPTION_INTERVAL]
    /\ failures' = [failures EXCEPT ![f] = @ + 1]

(* ingest_feed, lines 193-196: a new name, never used before, and its      *)
(* index; create_index raises when Elasticsearch rejects the request.      *)
FeedCreateIndex(f) ==
    /\ feedpc[f] = "create"
    /\ nextid <= MaxOldIndexes + MaxNewIndexes
    /\ LET index_name == get_new_index_name(f, nextid)
       IN  /\ feedidx' = [feedidx EXCEPT ![f] = index_name]
           /\ \E created \in BOOLEAN :
                 IF created
                 THEN /\ indexes' = indexes \cup {index_name}
                      /\ feedpc' = [feedpc EXCEPT ![f] = "mapping"]
                      /\ UNCHANGED <<feedhref, feedsleep, failures>>
                 ELSE /\ indexes' = indexes
                      /\ FeedRaise(f)
    /\ nextid' = nextid + 1
    /\ UNCHANGED <<servervars, lockvars, ravenvars, metricsvars, checkvars, repeatvars, bulkvars,
                   aliased, docs, refreshed, suppc, supdel, feeddel, swaps>>

(* ingest_feed, lines 200-203: the mapping, and href = feed.seed;          *)
(* create_mapping raises when Elasticsearch rejects the request.           *)
FeedCreateMapping(f) ==
    /\ feedpc[f] = "mapping"
    /\ \E created \in BOOLEAN :
          IF created
          THEN /\ feedhref' = [feedhref EXCEPT ![f] = seed(f)]
               /\ feedpc' = [feedpc EXCEPT ![f] = "fetch"]
               /\ UNCHANGED <<feedsleep, failures>>
          ELSE FeedRaise(f)
    /\ UNCHANGED <<servervars, lockvars, ravenvars, metricsvars, checkvars, repeatvars, bulkvars,
                   indexes, aliased, docs, refreshed, suppc, supdel,
                   feedidx, feeddel, swaps, nextid>>

(* ingest_feed_page, lines 231-239, by get_feed_contents, lines 272-282:   *)
(* the page is fetched and parsed, or a status other than 200 or a body    *)
(* that is not JSON raises.                                                *)
FeedFetchPage(f) ==
    /\ feedpc[f] = "fetch"
    /\ \E fetched \in BOOLEAN :
          IF fetched
          THEN /\ feedpc' = [feedpc EXCEPT ![f] = "bulk"]
               /\ UNCHANGED <<feedhref, feedsleep, failures>>
          ELSE FeedRaise(f)
    /\ UNCHANGED <<servervars, lockvars, ravenvars, metricsvars, checkvars, repeatvars, bulkvars, indexes, aliased, docs, refreshed,
                   suppc, supdel, feedidx, feeddel, swaps, nextid>>

(* ingest_feed, were its loop to go on with the href it was given.         *)
FeedBulkInsert_same_href(f) ==
    /\ feedpc[f] = "bulk"
    /\ \E inserted \in BOOLEAN :
          IF inserted
          THEN /\ docs' = [docs EXCEPT ![feedidx[f]] = Append(@, feedhref[f])]
               /\ refreshed' = refreshed \ {feedidx[f]}
               /\ feedhref' = [feedhref EXCEPT ![f] =
                                  IF Len(docs[feedidx[f]]) = 0 THEN @ ELSE next_href(f, @)]
               /\ feedpc' = [feedpc EXCEPT ![f] =
                                IF feedhref'[f] # "" THEN "fetch" ELSE "refresh"]
               /\ UNCHANGED <<feedsleep, failures>>
          ELSE /\ FeedRaise(f)
               /\ UNCHANGED <<docs, refreshed>>
    /\ UNCHANGED <<servervars, lockvars, ravenvars, metricsvars, checkvars, repeatvars, bulkvars, indexes, aliased, suppc, supdel,
                   feedidx, feeddel, swaps, nextid>>

(* ingest_feed_page, lines 242-264, and ingest_feed, lines 204-213: the    *)
(* items of the page are inserted into the index of the attempt, and the   *)
(* loop goes on with the next href, if any.                                *)
FeedBulkInsert(f) ==
    /\ feedpc[f] = "bulk"
    /\ \E inserted \in BOOLEAN :
          IF inserted
          THEN /\ docs' = [docs EXCEPT ![feedidx[f]] = Append(@, feedhref[f])]
               /\ refreshed' = refreshed \ {feedidx[f]}
               /\ feedhref' = [feedhref EXCEPT ![f] = next_href(f, feedhref[f])]
               /\ feedpc' = [feedpc EXCEPT ![f] =
                                IF next_href(f, feedhref[f]) # "" THEN "fetch" ELSE "refresh"]
               /\ UNCHANGED <<feedsleep, failures>>
          ELSE /\ FeedRaise(f)
               /\ UNCHANGED <<docs, refreshed>>
    /\ UNCHANGED <<servervars, lockvars, ravenvars, metricsvars, checkvars, repeatvars, bulkvars, indexes, aliased, suppc, supdel,
                   feedidx, feeddel, swaps, nextid>>

(* ingest_feed, were it to go on to the alias without the refresh.         *)
FeedRefresh_left_out(f) ==
    /\ feedpc[f] = "refresh"
    /\ feedpc' = [feedpc EXCEPT ![f] = "swap"]
    /\ UNCHANGED <<servervars, lockvars, ravenvars, metricsvars, checkvars, repeatvars, bulkvars, feedsleep, failures,
                   indexes, aliased, docs, refreshed, suppc, supdel,
                   feedidx, feedhref, feeddel, swaps, nextid>>

(* ingest_feed, line 216.                                                  *)
FeedRefresh(f) ==
    /\ feedpc[f] = "refresh"
    /\ refreshed' = refreshed \cup {feedidx[f]}
    /\ feedpc' = [feedpc EXCEPT ![f] = "swap"]
    /\ UNCHANGED <<servervars, lockvars, ravenvars, metricsvars, checkvars, repeatvars, bulkvars, feedsleep, failures,
                   indexes, aliased, docs, suppc, supdel,
                   feedidx, feedhref, feeddel, swaps, nextid>>

(* ingest_feed, lines 220-223: the alias is moved to the new index, the    *)
(* attempt is complete and the wrapper runs ingest_feed again; an alias    *)
(* update that fails raises, and the wrapper waits before the next run.    *)
FeedSwapAlias_other_feed(f) ==
    /\ feedpc[f] = "swap"
    /\ aliased' = add_remove_aliases_atomically(indexes, aliased, feedidx[f], CHOOSE g \in Feeds : g # f)
    /\ IF feedidx[f] \in indexes
       THEN /\ swaps' = [swaps EXCEPT ![f] = @ + 1]
            /\ feedpc' = [feedpc EXCEPT ![f] = "list"]
            /\ UNCHANGED <<feedhref, feedsleep, failures>>
       ELSE /\ swaps' = swaps
            /\ FeedRaise(f)
    /\ UNCHANGED <<servervars, lockvars, ravenvars, metricsvars, checkvars, repeatvars, bulkvars, indexes, docs, refreshed, suppc, supdel,
                   feedidx, feeddel, nextid>>
FeedSwapAlias(f) ==
    /\ feedpc[f] = "swap"
    /\ aliased' = add_remove_aliases_atomically(indexes, aliased, feedidx[f], f)
    /\ IF feedidx[f] \in indexes
       THEN /\ swaps' = [swaps EXCEPT ![f] = @ + 1]
            /\ feedpc' = [feedpc EXCEPT ![f] = "list"]
            /\ UNCHANGED <<feedhref, feedsleep, failures>>
       ELSE /\ swaps' = swaps
            /\ FeedRaise(f)
    /\ UNCHANGED <<servervars, lockvars, ravenvars, metricsvars, checkvars, repeatvars, bulkvars, indexes, docs, refreshed, suppc, supdel,
                   feedidx, feeddel, nextid>>

(* The seconds left at which a sleeping wrapper is observed: when the      *)
(* sleep begins, one second before its end, and at its end.                *)
SleepInstants(interval) == {interval, 1, 0}

NextInstant(interval, seconds) ==
    CHOOSE i \in SleepInstants(interval) :
        /\ i < seconds
        /\ \A j \in SleepInstants(interval) : j < seconds => j <= i

(* Time passes while the wrapper of ingest_feed sleeps.                    *)
FeedSleep(f) ==
    /\ feedpc[f] = "wait"
    /\ feedsleep[f] > 0
    /\ feedsleep' = [feedsleep EXCEPT ![f] = NextInstant(EXCEPTION_INTERVAL, @)]
    /\ UNCHANGED <<servervars, lockvars, ravenvars, metricsvars, checkvars, repeatvars, bulkvars, failures,
                   indexes, aliased, docs, refreshed, suppc, supdel,
                   feedpc, feedidx, feedhref, feeddel, swaps, nextid>>

(* The wrapper of ingest_feed, were it to run it again at once.            *)
FeedRerun_at_once(f) ==
    /\ feedpc[f] = "wait"
    /\ feedpc' = [feedpc EXCEPT ![f] = "list"]
    /\ feedsleep' = [feedsleep EXCEPT ![f] = 0]
    /\ UNCHANGED <<servervars, lockvars, ravenvars, metricsvars, checkvars, repeatvars, bulkvars, failures,
                   indexes, aliased, docs, refreshed, suppc, supdel,
                   feedidx, feedhref, feeddel, swaps, nextid>>

(* The wrapper of ingest_feed has slept EXCEPTION_INTERVAL and runs it     *)
(* again.                                                                  *)
FeedRerun(f) ==
    /\ feedpc[f] = "wait"
    /\ feedsleep[f] = 0
    /\ feedpc' = [feedpc EXCEPT ![f] = "list"]
    /\ UNCHANGED <<servervars, lockvars, ravenvars, metricsvars, checkvars, repeatvars, bulkvars, feedsleep, failures,
                   indexes, aliased, docs, refreshed, suppc, supdel,
                   feedidx, feedhref, feeddel, swaps, nextid>>

----------------------------------------------------------------------------
(* app.py: repeat_even_on_exception, lines 121-136                         *)

(* The runs of the coroutine the model follows.                            *)
MaxRuns == 5

(* Line 126: the loop awaits never_ending_coroutine().                     *)
RepeatRun ==
    /\ repeatpc = "idle"
    /\ repeatpc' = "run"
    /\ repeatobs' = [repeatobs EXCEPT !.runs = 1]
    /\ UNCHANGED <<servervars, lockvars, esvars, ravenvars, metricsvars, checkvars, bulkvars, repeatsleep>>

(* Lines 127-136: whatever ended the coroutine, the finally clause awaits  *)
(* asyncio.sleep(EXCEPTION_INTERVAL).                                      *)
RepeatFinally(outcome) ==
    /\ repeatpc' = "sleep"
    /\ repeatsleep' = EXCEPTION_INTERVAL
    /\ repeatobs' = [repeatobs EXCEPT !.outcome = outcome,
                                      !.cancelled = @ \/ outcome = "cancelled"]

(* Lines 127-128: the coroutine raises.  except BaseException catches the  *)
(* exception, whichever it is.                                             *)
RepeatRaise ==
    /\ repeatpc = "run"
    /\ RepeatFinally("raised")
    /\ UNCHANGED <<servervars, lockvars, esvars, ravenvars, metricsvars, checkvars, bulkvars>>

(* The loop, were it to take the return of the coroutine for its own end.  *)
RepeatReturn_ends ==
    /\ repeatpc = "run"
    /\ repeatpc' = "ended"
    /\ repeatobs' = [repeatobs EXCEPT !.outcome = "returned"]
    /\ UNCHANGED <<servervars, lockvars, esvars, ravenvars, metricsvars, checkvars, bulkvars,
                   repeatsleep>>

(* Lines 129-133: the coroutine returns.                                   *)
RepeatReturn ==
    /\ repeatpc = "run"
    /\ RepeatFinally("returned")
    /\ UNCHANGED <<servervars, lockvars, esvars, ravenvars, metricsvars, checkvars, bulkvars>>

(* The task is cancelled while the loop awaits the coroutine at line 126:  *)
(* asyncio.CancelledError is raised inside the try block, and              *)
(* except BaseException catches it as it does any other exception.         *)
RepeatCancelInRun ==
    /\ repeatpc = "run"
    /\ RepeatFinally("cancelled")
    /\ UNCHANGED <<servervars, lockvars, esvars, ravenvars, metricsvars, checkvars, bulkvars>>

(* The task is cancelled while it awaits asyncio.sleep at line 136, in the *)
(* finally clause: nothing catches asyncio.CancelledError there, and the   *)
(* task ends.                                                              *)
RepeatCancelInSleep ==
    /\ repeatpc = "sleep"
    /\ repeatpc' = "ended"
    /\ repeatsleep' = 0
    /\ repeatobs' = [repeatobs EXCEPT !.outcome = "cancelled", !.cancelled = TRUE]
    /\ UNCHANGED <<servervars, lockvars, esvars, ravenvars, metricsvars, checkvars, bulkvars>>

(* Time passes while the loop sleeps.                                      *)
RepeatSleep ==
    /\ repeatpc = "sleep"
    /\ repeatsleep > 0
    /\ repeatsleep' = NextInstant(EXCEPTION_INTERVAL, repeatsleep)
    /\ UNCHANGED <<servervars, lockvars, esvars, ravenvars, metricsvars, checkvars, bulkvars, repeatpc, repeatobs>>

(* Lines 125-126: the sleep is over, and the loop awaits the coroutine     *)
(* again.                                                                  *)
RepeatRerun ==
    /\ repeatpc = "sleep"
    /\ repeatsleep = 0
    /\ repeatobs.runs < MaxRuns
    /\ repeatpc' = "run"
    /\ repeatobs' = [repeatobs EXCEPT !.runs = @ + 1,
                                      !.rerun = @ \/ repeatobs.cancelled,
                                      !.slept = TRUE]
    /\ UNCHANGED <<servervars, lockvars, esvars, ravenvars, metricsvars, checkvars, bulkvars, repeatsleep>>

----------------------------------------------------------------------------
(* app.py: es_bulk, lines 195-200                                          *)

(* A JSON value is a string or a dict; a dict is its (key, value) pairs in *)
(* the order of insertion.                                                 *)
Atom(string) == [atom |-> string]
Dict(pairs) == [dict |-> pairs]
IsDict(value) == "dict" \in DOMAIN value

(* The keys of the dicts of the model, in the order of their code points.  *)
KeyOrder == <<"_id", "_index", "id", "index", "type">>
KeyRank(key) == CHOOSE i \in 1..Len(KeyOrder) : KeyOrder[i] = key

Swapped(pairs) == IF Len(pairs) = 2 THEN <<pairs[2], pairs[1]>> ELSE pairs

(* The bulk items of the model: the action and the source of an activity,  *)
(* their keys inserted in one order or the other.                          *)
ActivityIds == {"1", "2"}
BulkItem(id, action_swapped, source_swapped) ==
    LET index == <<<<"_index", Atom("activities")>>, <<"_id", Atom(id)>>>>
        source == <<<<"type", Atom("Create")>>, <<"id", Atom(id)>>>>
    IN  [action_and_metadata |->
             Dict(<< <<"index", Dict(IF action_swapped THEN Swapped(index) ELSE index)>> >>),
         source |-> Dict(IF source_swapped THEN Swapped(source) ELSE source)]
BulkItems ==
    {BulkItem(id, a, s) : id \in ActivityIds, a \in BOOLEAN, s \in BOOLEAN}

MaxItems == 2
RECURSIVE ListsUpTo(_, _)
ListsUpTo(set, n) ==
    IF n = 0 THEN {<<>>}
    ELSE LET shorter == ListsUpTo(set, n - 1)
         IN  shorter \cup {Append(l, x) : l \in {s \in shorter : Len(s) = n - 1}, x \in set}

(* json.dumps(value, sort_keys=True): the pairs of every dict, at any      *)
(* depth, in the order of their keys.                                      *)
RECURSIVE SortPairs(_)
SortPairs(pairs) ==
    IF pairs = <<>> THEN <<>>
    ELSE LET first == CHOOSE i \in 1..Len(pairs) :
                          \A j \in 1..Len(pairs) : KeyRank(pairs[i][1]) <= KeyRank(pairs[j][1])
             others == [k \in 1..(Len(pairs) - 1) |->
                           IF k < first THEN pairs[k] ELSE pairs[k + 1]]
         IN  <<pairs[first]>> \o SortPairs(others)

(* json.dumps, were it to leave the keys in the order of insertion.        *)
RECURSIVE json_dumps_unsorted(_)
json_dumps_unsorted(value) ==
    IF IsDict(value)
    THEN Dict([i \in 1..Len(value.dict) |->
                  <<value.dict[i][1], json_dumps_unsorted(value.dict[i][2])>>])
    ELSE value

RECURSIVE json_dumps(_)
json_dumps(value) ==
    IF IsDict(value)
    THEN LET sorted == SortPairs(value.dict)
         IN  Dict([i \in 1..Len(sorted) |-> <<sorted[i][1], json_dumps(sorted[i][2])>>])
    ELSE value

(* app_utils.flatten *)
RECURSIVE flatten(_)
flatten(lists) ==
    IF lists = <<>> THEN <<>> ELSE Head(lists) \o flatten(Tail(lists))

(* '\n'.join(lines): a text is the sequence of its lines and newlines.     *)
NL == Atom("\n")
RECURSIVE join(_)
join(lines) ==
    IF lines = <<>> THEN <<>>
    ELSE IF Len(lines) = 1 THEN <<lines[1]>>
    ELSE <<lines[1], NL>> \o join(Tail(lines))

(* es_bulk, lines 195-200.                                                 *)
es_bulk(items) ==
    join(flatten([i \in 1..Len(items) |->
        <<json_dumps(items[i].action_and_metadata), json_dumps(items[i].source)>>])) \o <<NL>>

(* ingest_feed, line 142: the payload of the items is made.                *)
EsBulk ==
    /\ es_bulk_contents = <<>>
    /\ es_bulk_contents' = es_bulk(es_bulk_items)
    /\ UNCHANGED <<servervars, lockvars, esvars, ravenvars, metricsvars, checkvars, repeatvars, es_bulk_items, es_post>>

(* app.py: es_bulk_auth_headers, lines 203-246.  Digests and MACs are the  *)
(* terms of what they are computed from.                                   *)
sha256(message) == <<"sha256", message>>
sign(key, msg) == <<"hmac-sha256", key, msg>>

(* The Elasticsearch endpoint of the environment, lines 56-68, and the     *)
(* instants of utcnow() the model follows.                                 *)
es_endpoint ==
    [host |-> "127.0.0.1", path |-> "/_bulk", access_key_id |-> "some-id",
     secret_key |-> "some-secret", region |-> "us-east-2",
     url |-> <<"http", "127.0.0.1", "9200", "/_bulk">>]
UtcNows ==
    {[amzdate |-> "20120114T120001Z", datestamp |-> "20120114"],
     [amzdate |-> "20120114T235959Z", datestamp |-> "20120114"],
     [amzdate |-> "20120115T000000Z", datestamp |-> "20120115"]}

signed_headers == <<"content-type", "host", "x-amz-date">>

(* canonical_request, were it to sign another content type.                *)
canonical_request_of_json(path, host, amzdate, payload) ==
    <<"POST", path, "",
      << <<"content-type", "application/json">>, <<"host", host>>, <<"x-amz-date", amzdate>> >>,
      signed_headers, sha256(payload)>>

(* Lines 216-226.                                                          *)
canonical_request(path, host, amzdate, payload) ==
    <<"POST", path, "",
      << <<"content-type", "application/x-ndjson">>, <<"host", host>>, <<"x-amz-date", amzdate>> >>,
      signed_headers, sha256(payload)>>

(* Lines 213 and 231-239.                                                  *)
credential_scope(datestamp, region) == <<datestamp, region, "es", "aws4_request">>
signature(secret_key, region, host, path, payload, utcnow) ==
    LET string_to_sign ==
            <<"AWS4-HMAC-SHA256", utcnow.amzdate, credential_scope(utcnow.datestamp, region),
              sha256(canonical_request(path, host, utcnow.amzdate, payload))>>
        date_key == sign(<<"AWS4", secret_key>>, utcnow.datestamp)
        region_key == sign(date_key, region)
        service_key == sign(region_key, "es")
        request_key == sign(service_key, "aws4_request")
    IN  sign(request_key, string_to_sign)

(* Lines 241-247.                                                          *)
es_bulk_auth_headers(access_key, secret_key, region, host, path, payload, utcnow) ==
    [x_amz_date |-> utcnow.amzdate,
     Authorization |->
         [algorithm |-> "AWS4-HMAC-SHA256",
          Credential |-> <<access_key, credential_scope(utcnow.datestamp, region)>>,
          SignedHeaders |-> signed_headers,
          Signature |-> signature(secret_key, region, host, path, payload, utcnow)]]

NoPost == [url |-> <<>>, data |-> <<>>, headers |-> <<>>]

(* ingest_feed, lines 146-160: the payload is signed and posted.           *)
EsPost ==
    /\ es_bulk_contents # <<>>
    /\ es_post = NoPost
    /\ \E utcnow \in UtcNows :
          LET headers == [Content_Type |-> "application/x-ndjson"]
              auth_headers ==
                  es_bulk_auth_headers(es_endpoint.access_key_id, es_endpoint.secret_key,
                                       es_endpoint.region, es_endpoint.host, es_endpoint.path,
                                       es_bulk_contents, utcnow)
          IN  es_post' = [url |-> es_endpoint.url,
                          data |-> es_bulk_contents,
                          headers |-> [Content_Type |-> headers.Content_Type,
                                       x_amz_date |-> auth_headers.x_amz_date,
                                       Authorization |-> auth_headers.Authorization]]
    /\ UNCHANGED <<servervars, lockvars, esvars, ravenvars, metricsvars, checkvars, repeatvars,
                   es_bulk_items, es_bulk_contents>>

----------------------------------------------------------------------------
(* app_server.py: handle_get_check, lines 195-245                          *)

(* Line 200.                                                               *)
startup_feed_grace_seconds == 30

(* A key that Redis does not have: GET gives nil.                          *)
Nil == ""

(* What the handler is given: the answer of GET redis-check after the SET  *)
(* of line 206, the minimum verification age, the seconds since the        *)
(* handler was made, and the status Redis has of each feed, in the order   *)
(* of feed_endpoints.                                                      *)
MinAges == {0, 59, 60, 61}
Uptimes == {0, 29, 30, 31}
FeedStatuses == {"GREEN", "RED", Nil}
CheckInputs ==
    [redis_result : {"GREEN", Nil},
     min_age : MinAges,
     uptime : Uptimes,
     feeds_statuses : [1..Len(feed_endpoints) -> FeedStatuses]]

NoCheckInputs ==
    [redis_result |-> Nil, min_age |-> 0, uptime |-> 0,
     feeds_statuses |-> [i \in 1..Len(feed_endpoints) |-> Nil]]
NoCheckResponse == [status |-> 0, body |-> <<>>]

CheckIdle ==
    /\ check_inputs = NoCheckInputs
    /\ check_response = NoCheckResponse

(* Lines 208, 211 and 214.                                                 *)
is_redis_green(redis_result) == redis_result = "GREEN"
is_elasticsearch_green(min_age) == min_age < 60
in_grace_period(uptime) == uptime <= startup_feed_grace_seconds

(* Lines 224-226.                                                          *)
feeds_statuses_with_red(feeds_statuses) ==
    [i \in DOMAIN feeds_statuses |-> IF feeds_statuses[i] = "GREEN" THEN "GREEN" ELSE "RED"]
are_all_feeds_green(feeds_statuses) ==
    \A i \in DOMAIN feeds_statuses : feeds_statuses[i] = "GREEN"

(* all_green, were the grace period not to excuse the feeds.               *)
all_green_without_grace(inputs) ==
    /\ is_redis_green(inputs.redis_result)
    /\ is_elasticsearch_green(inputs.min_age)
    /\ are_all_feeds_green(inputs.feeds_statuses)

(* Lines 228-229.                                                          *)
all_green(inputs) ==
    /\ is_redis_green(inputs.redis_result)
    /\ is_elasticsearch_green(inputs.min_age)
    /\ (are_all_feeds_green(inputs.feeds_statuses) \/ in_grace_period(inputs.uptime))

GreenOrRed(green) == IF green THEN "GREEN" ELSE "RED"

(* Lines 231-240: the lines of the body, each without its newline.         *)
check_status(inputs) ==
    << <<IF all_green(inputs) THEN "__UP__" ELSE "__DOWN__",
         IF in_grace_period(inputs.uptime) THEN " (IN_STARTUP_GRACE_PERIOD)" ELSE "">>,
       <<"redis:", GreenOrRed(is_redis_green(inputs.redis_result))>>,
       <<"elasticsearch:", GreenOrRed(is_elasticsearch_green(inputs.min_age))>> >>
    \o [i \in 1..Len(feed_endpoints) |->
           <<feed_endpoints[i], ":", feeds_statuses_with_red(inputs.feeds_statuses)[i]>>]

(* Lines 202-244: the handler answers.                                     *)
HandleGetCheck ==
    /\ check_response = NoCheckResponse
    /\ check_response' = [status |-> 200, body |-> check_status(check_inputs)]
    /\ UNCHANGED <<servervars, lockvars, esvars, ravenvars, metricsvars, repeatvars, bulkvars, check_inputs>>

----------------------------------------------------------------------------
(* Metrics: app_outgoing.py, create_metrics_application                    *)

(* The queries of one poll: the three totals and ages over all activities  *)
(* and es_feed_activities_total of each feed. Each gives a value or raises *)
(* ESMetricsUnavailable.                                                   *)
MetricsQueries ==
    {"es_searchable_total", "es_nonsearchable_total", "es_min_verification_age"}
        \cup Feeds
MetricsAnswers == {"value", "unavailable"}

(* The gauges a query feeds, as <<metric or feed, label>>.                 *)
GaugesOf(query) ==
    CASE query = "es_searchable_total" ->
            {<<"elasticsearch_activities_total", "searchable">>}
      [] query = "es_nonsearchable_total" ->
            {<<"elasticsearch_activities_total", "nonsearchable">>}
      [] query = "es_min_verification_age" ->
            {<<"elasticsearch_activities_age_minimum_seconds", "verification">>}
      [] OTHER -> {<<query, "searchable">>, <<query, "nonsearchable">>}

NoMetricsWritten == {<<"", "">>}

MetricsIdle ==
    /\ es_metrics = [q \in MetricsQueries |-> "value"]
    /\ metricspc = "idle"
    /\ metrics_feed = 1
    /\ metrics = {}
    /\ metrics_written = NoMetricsWritten

(* Lines 340-344: the gauge is set unless the query raises                 *)
(* ESMetricsUnavailable, which is swallowed.                               *)
set_metric_if_can(gauges, query, answers) ==
    IF answers[query] = "unavailable" THEN gauges
    ELSE gauges \cup GaugesOf(query)

(* The loop of async_repeat_until_cancelled enters poll_metrics, whatever  *)
(* Elasticsearch is going to answer.                                       *)
PollStart ==
    /\ metricspc \in {"idle", "slept", "raised"}
    /\ es_metrics' \in [MetricsQueries -> MetricsAnswers]
    /\ metricspc' = "searchable"
    /\ metrics_feed' = 1
    /\ metrics' = {}
    /\ metrics_written' = NoMetricsWritten
    /\ UNCHANGED <<servervars, lockvars, esvars, ravenvars, repeatvars, bulkvars, checkvars>>

(* Lines 300-301: the searchable total is awaited and set outside any      *)
(* try: ESMetricsUnavailable leaves poll_metrics.                          *)
PollSearchable ==
    /\ metricspc = "searchable"
    /\ IF es_metrics["es_searchable_total"] = "unavailable"
       THEN /\ metricspc' = "raised"
            /\ UNCHANGED metrics
       ELSE /\ metricspc' = "nonsearchable"
            /\ metrics' = metrics \cup GaugesOf("es_searchable_total")
    /\ UNCHANGED <<servervars, lockvars, esvars, ravenvars, repeatvars, bulkvars, checkvars,
                   es_metrics, metrics_feed, metrics_written>>

(* Lines 303-307.                                                          *)
PollNonsearchable ==
    /\ metricspc = "nonsearchable"
    /\ metrics' = set_metric_if_can(metrics, "es_nonsearchable_total", es_metrics)
    /\ metricspc' = "verification"
    /\ UNCHANGED <<servervars, lockvars, esvars, ravenvars, repeatvars, bulkvars, checkvars,
                   es_metrics, metrics_feed, metrics_written>>

(* Lines 308-312.                                                          *)
PollVerificationAge ==
    /\ metricspc = "verification"
    /\ metrics' = set_metric_if_can(metrics, "es_min_verification_age", es_metrics)
    /\ metricspc' = "feeds"
    /\ UNCHANGED <<servervars, lockvars, esvars, ravenvars, repeatvars, bulkvars, checkvars,
                   es_metrics, metrics_feed, metrics_written>>

(* Lines 314-324: one turn of the loop over the feeds; ESMetricsUnavailable *)
(* of a feed is passed over.                                               *)
PollFeed ==
    /\ metricspc = "feeds"
    /\ metrics_feed <= Len(feed_endpoints)
    /\ metrics' =
          IF es_metrics[feed_endpoints[metrics_feed]] = "unavailable" THEN metrics
          ELSE metrics \cup GaugesOf(feed_endpoints[metrics_feed])
    /\ metrics_feed' = metrics_feed + 1
    /\ UNCHANGED <<servervars, lockvars, esvars, ravenvars, repeatvars, bulkvars, checkvars,
                   es_metrics, metricspc, metrics_written>>

(* Line 328: the registry is written to Redis after the last feed.         *)
PollSave ==
    /\ metricspc = "feeds"
    /\ metrics_feed > Len(feed_endpoints)
    /\ metrics_written' = metrics
    /\ metricspc' = "saved"
    /\ UNCHANGED <<servervars, lockvars, esvars, ravenvars, repeatvars, bulkvars, checkvars,
                   es_metrics, metrics_feed, metrics>>

(* Line 331.                                                               *)
PollSleep ==
    /\ metricspc = "saved"
    /\ metricspc' = "slept"
    /\ UNCHANGED <<servervars, lockvars, esvars, ravenvars, repeatvars, bulkvars, checkvars,
                   es_metrics, metrics_feed, metrics, metrics_written>>

----------------------------------------------------------------------------
(* Error reporting: app_server.py, raven_reporter                          *)

NoException == [http |-> FALSE, status_code |-> 0, text |-> ""]
NoRavenRequest == [method |-> "", proto |-> ""]

(* What a handler under raven_reporter may raise: HTTP exceptions of each  *)
(* class of status, and exceptions that are not HTTP exceptions.           *)
HandlerExceptions ==
    {[http |-> TRUE, status_code |-> 200, text |-> "OK"],
     [http |-> TRUE, status_code |-> 302, text |-> "Found"],
     HTTPUnauthorized(INCORRECT),
     HTTPForbidden(NOT_AUTHORIZED),
     HTTPNotFound(SCROLL_ID_NOT_FOUND),
     [http |-> TRUE, status_code |-> 500, text |-> "Internal Server Error"],
     OtherException("backend"),
     OtherException("redis")}

(* The headers of the request that matter to the reporter: X-Forwarded-Proto *)
(* may be absent, "none".                                                  *)
RavenRequests == [method : {"GET", "POST"}, proto : {"none", "http", "https"}]

RavenIdle ==
    /\ ravenpc = "idle"
    /\ raven_request = NoRavenRequest
    /\ raven_escaped = NoException
    /\ raven_raised = NoException
    /\ raven_captured = 0
    /\ raven_response = NoResponse

(* Line 128: web.HTTPSuccessful, web.HTTPRedirection, web.HTTPClientError. *)
IsHTTP2xx3xx4xx(exception) ==
    exception.http /\ exception.status_code \in 200..499

(* Lines 125-139. An exception of the three HTTP classes is raised again   *)
(* as it is. For any other, the data of the report are built first, and    *)
(* request.headers['X-Forwarded-Proto'] of a request without the header    *)
(* raises KeyError before captureException is called.                      *)
raven_reporter(request, exception) ==
    IF exception = NoException THEN [captured |-> 0, raised |-> NoException]
    ELSE IF IsHTTP2xx3xx4xx(exception) THEN [captured |-> 0, raised |-> exception]
    ELSE IF request.proto = "none"
         THEN [captured |-> 0, raised |-> OtherException("KeyError")]
         ELSE [captured |-> 1, raised |-> exception]

(* A request reaches a handler, which returns or raises.                   *)
RavenHandle ==
    /\ ravenpc = "idle"
    /\ raven_request' \in RavenRequests
    /\ raven_escaped' \in HandlerExceptions \cup {NoException}
    /\ raven_raised' = raven_escaped'
    /\ raven_captured' = 0
    /\ raven_response' = NoResponse
    /\ ravenpc' = "reporter"
    /\ UNCHANGED <<servervars, lockvars, esvars, repeatvars, bulkvars, checkvars,
                   metricsvars>>

(* Lines 124-139.                                                          *)
RavenReport ==
    /\ ravenpc = "reporter"
    /\ LET result == raven_reporter(raven_request, raven_raised)
       IN  /\ raven_captured' = raven_captured + result.captured
           /\ raven_raised' = result.raised
    /\ ravenpc' = "converter"
    /\ UNCHANGED <<servervars, lockvars, esvars, repeatvars, bulkvars, checkvars,
                   metricsvars, raven_request, raven_escaped, raven_response>>

(* Lines 146-154: the response of the handler, or the JSON made of what    *)
(* was raised.                                                             *)
RavenConvert ==
    /\ ravenpc = "converter"
    /\ raven_response' =
          IF raven_raised = NoException
          THEN json_response(<<"secret", "to-be-hidden">>, 200)
          ELSE convert_errors_to_json(raven_raised)
    /\ ravenpc' = "done"
    /\ UNCHANGED <<servervars, lockvars, esvars, repeatvars, bulkvars, checkvars,
                   metricsvars, raven_request, raven_escaped, raven_raised,
                   raven_captured>>

RavenFinish ==
    /\ ravenpc = "done"
    /\ ravenpc' = "idle"
    /\ raven_request' = NoRavenRequest
    /\ raven_escaped' = NoException
    /\ raven_raised' = NoException
    /\ raven_captured' = 0
    /\ raven_response' = NoResponse
    /\ UNCHANGED <<servervars, lockvars, esvars, repeatvars, bulkvars, checkvars,
                   metricsvars>>

----------------------------------------------------------------------------
(* Specifications                                                          *)

ServerIdle ==
    /\ now = 0
    /\ redis = EmptyRedis
    /\ served = [k \in NonceKeys |-> NotServed]
    /\ req = [c \in Conns |-> NoRequest]
    /\ pc = [c \in Conns |-> "idle"]
    /\ resp = [c \in Conns |-> NoResponse]
    /\ obs = [c \in Conns |-> NoObs]

LockIdle ==
    /\ lockpc = [p \in Processes |-> [at |-> "acquire", wake |-> 0]]
    /\ lockobs = [p \in Processes |-> NoLockObs]
    /\ lapsed = FALSE

NoIndex == IndexName("", 0)

(* History of the loop: the runs of the coroutine so far, how the last one *)
(* ended, whether the task was ever cancelled, whether the coroutine was   *)
(* run again after that, and whether a whole sleep has passed.             *)
NoRepeatObs == [runs |-> 0, outcome |-> "", cancelled |-> FALSE, rerun |-> FALSE, slept |-> FALSE]

RepeatIdle ==
    /\ repeatpc = "idle"
    /\ repeatsleep = 0
    /\ repeatobs = NoRepeatObs

BulkIdle ==
    /\ es_bulk_items = <<>>
    /\ es_bulk_contents = <<>>
    /\ es_post = NoPost

IngestIdle ==
    /\ indexes = {}
    /\ aliased = {}
    /\ docs = [i \in IndexNames |-> <<>>]
    /\ refreshed = {}
    /\ suppc = "list"
    /\ supdel = {}
    /\ feedpc = [f \in Feeds |-> "idle"]
    /\ feedidx = [f \in Feeds |-> NoIndex]
    /\ feedhref = [f \in Feeds |-> ""]
    /\ feeddel = [f \in Feeds |-> {}]
    /\ swaps = [f \in Feeds |-> 0]
    /\ nextid = MaxOldIndexes + 1
    /\ feedsleep = [f \in Feeds |-> 0]
    /\ failures = [f \in Feeds |-> 0]

(* The gateway serving one request after the other as time passes.         *)
OthersIdle == RepeatIdle /\ BulkIdle /\ CheckIdle /\ MetricsIdle
              /\ RavenIdle

Init == ServerIdle /\ LockIdle /\ IngestIdle /\ OthersIdle

Next ==
    \/ Tick
    \/ \E c \in {"c1"} :
          \/ Receive(c)
          \/ Authenticate(c)
          \/ CheckNonce(c)
          \/ Authorize(c)
          \/ Handle(c)
          \/ Finish(c)

Spec == Init /\ [][Next]_vars

(* The gateway receiving one request, any request of the model, with the   *)
(* nonce of the request already in Redis or not.                           *)
InitAuth ==
    /\ now = 0
    /\ \E r \in Requests(0, {"n1"}), seen \in BOOLEAN :
          /\ req = [c \in Conns |-> IF c = "c1" THEN r ELSE NoRequest]
          /\ redis = IF seen /\ nonce_key_of(r) \in NonceKeys
                     THEN [EmptyRedis EXCEPT ![nonce_key_of(r)] =
                              [value |-> "1", expires |-> NONCE_EXPIRE - timestamp_skew_in_seconds]]
                     ELSE EmptyRedis
    /\ served = [k \in NonceKeys |-> NotServed]
    /\ pc = [c \in Conns |-> IF c = "c1" THEN "authenticate" ELSE "idle"]
    /\ resp = [c \in Conns |-> NoResponse]
    /\ obs = [c \in Conns |-> NoObs]
    /\ LockIdle
    /\ IngestIdle
    /\ OthersIdle

NextAuth ==
    \E c \in {"c1"} :
        \/ Authenticate(c)
        \/ CheckNonce(c)
        \/ Authorize(c)
        \/ Handle(c)

SpecAuth == InitAuth /\ [][NextAuth]_vars

(* The gateway serving the requests of two connections at once, each as a  *)
(* task of its own: their steps interleave at every await.  The requests   *)
(* bear the same nonce, and no time passes between them.                   *)
NextConcurrent ==
    \E c \in Conns :
        \/ Receive(c)
        \/ Authenticate(c)
        \/ CheckNonce(c)
        \/ Authorize(c)
        \/ Handle(c)
        \/ Finish(c)

SpecConcurrent == Init /\ [][NextConcurrent]_vars

(* A client searching and following the next links.                        *)
ReceiveScroll(c) ==
    /\ pc[c] = "idle"
    /\ \E r \in ScrollRequests(now, Nonces) :
          req' = [req EXCEPT ![c] = r]
    /\ pc' = [pc EXCEPT ![c] = "authenticate"]
    /\ UNCHANGED <<now, redis, served, resp, obs, lockvars, esvars, ravenvars, metricsvars, checkvars, repeatvars, bulkvars>>

NextScroll ==
    \/ Tick
    \/ \E c \in {"c1"} :
          \/ ReceiveScroll(c)
          \/ Authenticate(c)
          \/ CheckNonce(c)
          \/ Authorize(c)
          \/ Handle(c)
          \/ Finish(c)

SpecScroll == Init /\ [][NextScroll]_vars

(* Ingester processes sharing Redis.                                       *)
NextLock ==
    \/ TickSecond
    \/ \E p \in Processes :
          \/ Acquire(p)
          \/ ExtendLock(p)
          \/ RerunExtend(p)
          \/ IngestStep(p)
          \/ Stop(p)

SpecLock == Init /\ [][NextLock]_vars

(* The same processes for as long as they run.  The event loop of a        *)
(* process runs every task that is ready, so a process in its acquire loop *)
(* makes its next attempt and a process past it takes its ingest steps,    *)
(* and time passes; nothing makes a process refresh in time or keeps it    *)
(* from being destroyed.                                                   *)
NextLockFair ==
    \/ ElapseSecond
    \/ \E p \in Processes :
          \/ Acquire(p)
          \/ ExtendLock(p)
          \/ RerunExtend(p)
          \/ IngestStep(p)
          \/ Stop(p)

SpecLockFair ==
    /\ Init
    /\ [][NextLockFair]_vars
    /\ WF_vars(ElapseSecond)
    /\ \A p \in Processes : WF_vars(Acquire(p)) /\ WF_vars(IngestStep(p))

(* One ingester process, and the indexes earlier runs left: of a feed that *)
(* is configured and of one that is not, at most one per feed with the     *)
(* alias.                                                                  *)
InitIngest ==
    /\ ServerIdle
    /\ LockIdle
    /\ OthersIdle
    /\ indexes \in SUBSET OldIndexNames
    /\ aliased \in SUBSET indexes
    /\ \A f \in Feeds \cup RemovedFeeds :
          Cardinality(indexes_matching_feeds(aliased, {f})) <= 1
    /\ docs = [i \in IndexNames |-> <<>>]
    /\ refreshed = {}
    /\ suppc = "list"
    /\ supdel = {}
    /\ feedpc = [f \in Feeds |-> "idle"]
    /\ feedidx = [f \in Feeds |-> NoIndex]
    /\ feedhref = [f \in Feeds |-> ""]
    /\ feeddel = [f \in Feeds |-> {}]
    /\ swaps = [f \in Feeds |-> 0]
    /\ nextid = MaxOldIndexes + 1
    /\ feedsleep = [f \in Feeds |-> 0]
    /\ failures = [f \in Feeds |-> 0]

NextIngest ==
    \/ SupervisorList
    \/ SupervisorDelete
    \/ \E f \in Feeds :
          \/ FeedList(f)
          \/ FeedDelete(f)
          \/ FeedCreateIndex(f)
          \/ FeedCreateMapping(f)
          \/ FeedFetchPage(f)
          \/ FeedBulkInsert(f)
          \/ FeedRefresh(f)
          \/ FeedSwapAlias(f)
          \/ FeedSleep(f)
          \/ FeedRerun(f)

SpecIngest == InitIngest /\ [][NextIngest]_vars

(* The steps of the task of one feed.  The event loop runs every task that *)
(* can take a step, and a sleep ends: none of them is put off forever.     *)
(* The ingester starts on an Elasticsearch without indexes.                *)
FeedStep(f) ==
    \/ FeedList(f)
    \/ FeedDelete(f)
    \/ FeedCreateIndex(f)
    \/ FeedCreateMapping(f)
    \/ FeedFetchPage(f)
    \/ FeedBulkInsert(f)
    \/ FeedRefresh(f)
    \/ FeedSwapAlias(f)
    \/ FeedSleep(f)
    \/ FeedRerun(f)

SpecIngestFair ==
    /\ Init /\ [][NextIngest]_vars
    /\ WF_vars(SupervisorList \/ SupervisorDelete)
    /\ \A f \in Feeds : WF_vars(FeedStep(f))

(* A task under repeat_even_on_exception, and its cancellation.            *)
NextRepeat ==
    \/ RepeatRun
    \/ RepeatRaise
    \/ RepeatReturn
    \/ RepeatCancelInRun
    \/ RepeatCancelInSleep
    \/ RepeatSleep
    \/ RepeatRerun

SpecRepeat == Init /\ [][NextRepeat]_vars

(* asyncio.sleep comes to its end and the loop goes on after it; nothing   *)
(* makes the coroutine end, nor the task be cancelled.                     *)
SpecRepeatFair == SpecRepeat /\ WF_vars(RepeatSleep) /\ WF_vars(RepeatRerun)

(* es_bulk applied to the items of a page, any list of items of the model. *)
InitBulk ==
    /\ ServerIdle
    /\ LockIdle
    /\ IngestIdle
    /\ RepeatIdle
    /\ CheckIdle
    /\ MetricsIdle
    /\ RavenIdle
    /\ es_bulk_items \in ListsUpTo(BulkItems, MaxItems)
    /\ es_bulk_contents = <<>>
    /\ es_post = NoPost

NextBulk == EsBulk \/ EsPost

SpecBulk == InitBulk /\ [][NextBulk]_vars

(* /check answered once, for any health of Redis, of Elasticsearch and of  *)
(* the feeds, early or late in the life of the process.                    *)
InitCheck ==
    /\ ServerIdle
    /\ LockIdle
    /\ IngestIdle
    /\ RepeatIdle
    /\ BulkIdle
    /\ MetricsIdle
    /\ RavenIdle
    /\ check_inputs \in CheckInputs
    /\ check_response = NoCheckResponse

NextCheck == HandleGetCheck

SpecCheck == InitCheck /\ [][NextCheck]_vars

(* The metrics poller, poll after poll, for any answers of Elasticsearch.  *)
NextMetrics ==
    \/ PollStart
    \/ PollSearchable
    \/ PollNonsearchable
    \/ PollVerificationAge
    \/ PollFeed
    \/ PollSave
    \/ PollSleep

(* Two presentations of requests, one on each connection, at any two      *)
(* instants: each connection serves one request and keeps it.              *)
NextReplay ==
    \/ Tick
    \/ \E c \in Conns :
          \/ Receive(c)
          \/ Authenticate(c)
          \/ CheckNonce(c)
          \/ Authorize(c)
          \/ Handle(c)

SpecReplay == Init /\ [][NextReplay]_vars

SpecMetrics == Init /\ [][NextMetrics]_vars

(* Requests through convert_errors_to_json and raven_reporter to a handler *)
(* that returns or raises.                                                 *)
NextRaven ==
    \/ RavenHandle
    \/ RavenReport
    \/ RavenConvert
    \/ RavenFinish

SpecRaven == Init /\ [][NextRaven]_vars

----------------------------------------------------------------------------
(* Properties                                                              *)

KeyPairs == {incoming_key_pairs[i] : i \in 1..Len(incoming_key_pairs)}

(* The permission set the configuration gives a key id.                    *)
ConfiguredPermissions(key_id) ==
    UNION {kp.permissions : kp \in {k \in KeyPairs : k.key_id = key_id}}

(* The three headers of the presence checks are all there.                 *)
HeadersPresent(request) ==
    {"X-Forwarded-Proto", "Authorization", "Content-Type"} \subseteq request.headers

(* The Authorization header is the one a configured client builds for this *)
(* very request: its own id and secret, over the URL, method, payload and  *)
(* content type of the request as received.                                *)
SignedFor(request) ==
    \E kp \in KeyPairs :
        request.authorization =
            hawk_auth_header(kp.key_id, kp.secret_key, Url(request.proto), request.method,
                             request.content, request.content_type,
                             request.authorization.ts, request.authorization.nonce)

Unauthorized(c, text) ==
    /\ resp[c] = [status |-> 401, body |-> <<"details", text>>]
    /\ ~obs[c].handled

(* The request of c passed the MAC check and was presented while the nonce *)
(* entry of an earlier request with its (key id, nonce) was within its TTL.*)
SecondWithinTTL(c) == pc[c] = "done" /\ obs[c].mac_verified /\ obs[c].replay

(* C1, as stated: of two requests with the same (key id, nonce) and valid  *)
(* MACs, the second presented within the TTL of the first's nonce entry,   *)
(* the first was forwarded to the handler and answered 200, the second is  *)
(* answered 401 "Incorrect authentication credentials." without reaching   *)
(* the handler.                                                            *)
C1_FirstForwarded200_SecondRejected ==
    \A c \in Conns :
        SecondWithinTTL(c) =>
            /\ served[nonce_key_of(req[c])].handled
            /\ served[nonce_key_of(req[c])].status = 200
            /\ Unauthorized(c, INCORRECT)

(* C1, amended: the first passed authentication, was forwarded to the      *)
(* handler exactly when its method is in the permission set of its key     *)
(* (200 for POST) and answered 403 otherwise; the second is answered 401   *)
(* "Incorrect authentication credentials.", is not authenticated and does  *)
(* not reach the handler.                                                  *)
C1_ReplayRejected ==
    \A c \in Conns :
        SecondWithinTTL(c) =>
            LET first == served[nonce_key_of(req[c])]
                permitted == first.method \in ConfiguredPermissions(req[c].authorization.id)
            IN  /\ first.handled = permitted
                /\ (permitted /\ first.method = "POST") => first.status = 200
                /\ ~permitted => first.status = 403
                /\ Unauthorized(c, INCORRECT)
                /\ ~obs[c].authenticated

C1_ReplayRejected_witness ==
    \E c \in Conns :
        /\ SecondWithinTTL(c)
        /\ served[nonce_key_of(req[c])].status = 200
        /\ served[nonce_key_of(req[c])].handled
        /\ resp[c].status = 401

(* C2: for each configured feed at most one of its indexes holds the       *)
(* alias, and once the feed has completed a swap exactly one does: no      *)
(* state shows both the old and the new index of a feed under the alias,   *)
(* or neither.                                                             *)
C2_OneAliasedIndexPerFeed ==
    \A f \in Feeds :
        /\ Cardinality(AliasedOf(f)) <= 1
        /\ swaps[f] >= 1 => Cardinality(AliasedOf(f)) = 1

(* A feed that had an aliased index has swapped the alias to a new index,  *)
(* twice, and the new index alone holds the alias.                         *)
C2_OneAliasedIndexPerFeed_witness ==
    \E f \in Feeds :
        /\ swaps[f] >= 2
        /\ \E i \in AliasedOf(f) : i[2] > MaxOldIndexes
        /\ \E i \in indexes \ aliased : FeedOf(i) = f

(* C3, as stated: at most one process at a time is past lock acquisition,  *)
(* whatever the interleaving of acquire attempts, refreshes, expiry of the *)
(* lock key and suspension of tasks.                                       *)
C3_AtMostOnePastAcquire ==
    Cardinality({p \in Processes : PastAcquire(p)}) <= 1

(* C3, amended: at most one process at a time is past lock acquisition as  *)
(* long as the lock key has never run out under a live process that is     *)
(* past acquisition (none was suspended for the TTL).                      *)
C3_AtMostOnePastAcquireUnlessLapsed ==
    ~lapsed => Cardinality({p \in Processes : PastAcquire(p)}) <= 1

(* One process holds the lock and ingests while another has tried to       *)
(* acquire it, was refused and sleeps.                                     *)
C3_AtMostOnePastAcquireUnlessLapsed_witness ==
    \E p, q \in Processes :
        /\ p # q
        /\ ~lapsed
        /\ PastAcquire(p) /\ lockobs[p].ingested
        /\ RedisExists(redis, LockKey, now)
        /\ lockpc[q].at = "acquire" /\ lockpc[q].wake > now

XForwardedForTrusted(request) ==
    /\ "X-Forwarded-For" \in request.headers
    /\ Len(request.xff) >= 2
    /\ request.xff[Len(request.xff) - 1] \in ip_whitelist

(* C5, as stated: a request is authenticated only if its X-Forwarded-For   *)
(* has at least two entries of which the second from last is whitelisted;  *)
(* any other request, its MAC valid or not, is answered 401 "Incorrect     *)
(* authentication credentials." once it has the three required headers,    *)
(* and never reaches the handler.                                          *)
C5_XForwardedForWhitelist ==
    \A c \in Conns :
        (pc[c] = "done" /\ ~XForwardedForTrusted(req[c])) =>
            /\ ~obs[c].authenticated
            /\ ~obs[c].handled
            /\ HeadersPresent(req[c]) => Unauthorized(c, INCORRECT)

(* C6: a request with the three headers whose Authorization names an       *)
(* unknown key id, or was computed with another secret, method, payload or *)
(* content type than those of the request as received, is answered 401     *)
(* "Incorrect authentication credentials." and never reaches the handler.  *)
C6_BadCredentialsRejected ==
    \A c \in Conns :
        (pc[c] = "done" /\ HeadersPresent(req[c]) /\ ~SignedFor(req[c])) =>
            /\ Unauthorized(c, INCORRECT)
            /\ ~obs[c].authenticated

(* Rejected: a configured key id with a MAC over another method, and an    *)
(* unknown key id.                                                         *)
C6_BadCredentialsRejected_witness ==
    \E c \in Conns :
        /\ pc[c] = "done" /\ HeadersPresent(req[c]) /\ ~SignedFor(req[c])
        /\ req[c].authorization.id \in {kp.key_id : kp \in KeyPairs}
        /\ \E kp \in KeyPairs, m \in Methods \ {req[c].method} :
              req[c].authorization =
                  hawk_auth_header(kp.key_id, kp.secret_key, Url(req[c].proto), m,
                                   req[c].content, req[c].content_type,
                                   req[c].authorization.ts, req[c].authorization.nonce)
        /\ resp[c].status = 401

C8_SkewBoundary ==
    \A c \in Conns :
        (pc[c] = "done" /\ HeadersPresent(req[c]) /\ SignedFor(req[c])) =>
            /\ (Abs(req[c].authorization.ts - now) = 60 /\ ~obs[c].replay)
                   => /\ obs[c].authenticated
                      /\ resp[c].body # <<"details", INCORRECT>>
            /\ Abs(req[c].authorization.ts - now) = 61
                   => Unauthorized(c, INCORRECT) /\ ~obs[c].authenticated

(* A request stamped 60 s after the server clock was authenticated.        *)
C8_SkewBoundary_witness ==
    \E c \in Conns :
        /\ pc[c] = "done" /\ HeadersPresent(req[c]) /\ SignedFor(req[c])
        /\ req[c].authorization.ts - now = 60
        /\ obs[c].authenticated
        /\ resp[c].status = 200

(* C9: a request whose Content-Type header is there and empty, signed over *)
(* the empty content type, is authenticated (timestamp within the skew,    *)
(* nonce not seen before); a request without the header is answered 401;   *)
(* a request signed over another content type than the one it carries is   *)
(* answered 401 "Incorrect authentication credentials."                    *)
C9_EmptyContentType ==
    \A c \in Conns :
        pc[c] = "done" =>
            /\ ( /\ HeadersPresent(req[c])
                 /\ req[c].content_type = ""
                 /\ SignedFor(req[c])
                 /\ Abs(req[c].authorization.ts - now) <= 60
                 /\ ~obs[c].replay ) => obs[c].authenticated
            /\ "Content-Type" \notin req[c].headers
                   => resp[c].status = 401 /\ ~obs[c].authenticated /\ ~obs[c].handled
            /\ ( /\ HeadersPresent(req[c])
                 /\ \A content \in Contents :
                       req[c].authorization.hash
                           # calculate_payload_hash(content, req[c].content_type) )
                   => Unauthorized(c, INCORRECT) /\ ~obs[c].authenticated

(* A POST with an empty Content-Type header, signed over it, was answered  *)
(* by the handler.                                                         *)
C9_EmptyContentType_witness ==
    \E c \in Conns :
        /\ pc[c] = "done"
        /\ "Content-Type" \in req[c].headers /\ req[c].content_type = ""
        /\ req[c].authorization.hash = calculate_payload_hash(req[c].content, "")
        /\ obs[c].authenticated
        /\ resp[c] = [status |-> 200, body |-> <<"secret", "to-be-hidden">>]

(* C10: an authenticated request whose method is not in the permission set *)
(* of its key is answered 403 "You are not authorized to perform this      *)
(* action." and the handler is not invoked; one whose method is in the set *)
(* is forwarded to the handler.                                            *)
C10_Authorizer ==
    \A c \in Conns :
        (pc[c] = "done" /\ obs[c].authenticated) =>
            IF req[c].method \in ConfiguredPermissions(req[c].authorization.id)
            THEN obs[c].handled
            ELSE /\ resp[c] = [status |-> 403, body |-> <<"details", NOT_AUTHORIZED>>]
                 /\ ~obs[c].handled

(* A GET authenticated with the key that may only POST was answered 403.   *)
C10_Authorizer_witness ==
    \E c \in Conns :
        /\ pc[c] = "done" /\ obs[c].authenticated
        /\ req[c].method = "GET"
        /\ ConfiguredPermissions(req[c].authorization.id) = {"POST"}
        /\ resp[c].status = 403

(* C11: a nonce entry does not outlive its TTL: a request with a valid MAC *)
(* and a timestamp within the skew, presenting the (key id, nonce) of a    *)
(* request that was answered 200 and whose nonce entry has expired since,  *)
(* passes authentication again and, being the same kind of request,        *)
(* reaches the handler again (200 for POST).                               *)
C11_NonceExpires ==
    \A c \in Conns :
        ( /\ pc[c] = "done"
          /\ obs[c].mac_verified
          /\ obs[c].expired
          /\ obs[c].prior.status = 200 /\ obs[c].prior.handled
          /\ obs[c].prior.method = req[c].method ) =>
            /\ obs[c].authenticated
            /\ obs[c].handled
            /\ req[c].method = "POST"
                   => resp[c] = [status |-> 200, body |-> <<"secret", "to-be-hidden">>]

(* The header stamped 60 s ahead that was answered 200 at time 0 is        *)
(* answered 200 again when the nonce entry runs out, NONCE_EXPIRE later.   *)
C11_NonceExpires_witness ==
    \E c \in Conns :
        /\ pc[c] = "done"
        /\ now = NONCE_EXPIRE
        /\ req[c].authorization.ts = now - timestamp_skew_in_seconds
        /\ obs[c].expired
        /\ obs[c].prior.status = 200 /\ obs[c].prior.method = "POST"
        /\ req[c].method = "POST"
        /\ resp[c].status = 200

(* The request of c is a GET that was answered by the search handler.      *)
SearchDone(c) == pc[c] = "done" /\ req[c].method = "GET" /\ obs[c].handled

(* C12: when a search is answered with a next URL, the private scroll id   *)
(* the backend returned is in Redis under the public id of that URL, for   *)
(* the pagination TTL, when the response is returned; and a GET of a       *)
(* public id that Redis holds is sent to the backend as the continuation   *)
(* of the private scroll id stored under it, and answered with the         *)
(* backend's status and page.                                              *)
C12_ScrollRoundTrip ==
    \A c \in Conns :
        SearchDone(c) =>
            /\ \A u \in PublicScrollIds :
                  (Len(resp[c].body) = 4 /\ resp[c].body[4] = <<"/v1/", u>>) =>
                      /\ resp[c].body[3] = "next"
                      /\ obs[c].backend.returned \in PrivateScrollIds
                      /\ now < obs[c].backend.at + pagination_expire
                             => redis[ScrollKey(u)] =
                                    [value |-> obs[c].backend.returned,
                                     expires |-> obs[c].backend.at + pagination_expire]
            /\ obs[c].stored # ""
                  => /\ obs[c].backend.path = "/_search/scroll"
                     /\ obs[c].backend.scroll_id = obs[c].stored
                     /\ obs[c].backend.status # 0
                            => /\ resp[c].status = obs[c].backend.status
                               /\ SubSeq(resp[c].body, 1, 2) = obs[c].backend.body

(* The next URL of an earlier answer was followed before its TTL ran out:  *)
(* the continuation of the stored private scroll id was sent and its page  *)
(* returned, with the URL of the page after it.                            *)
C12_ScrollRoundTrip_witness ==
    \E c \in Conns :
        /\ SearchDone(c)
        /\ req[c].public_scroll_id \in PublicScrollIds
        /\ obs[c].stored \in PrivateScrollIds
        /\ obs[c].backend.scroll_id = obs[c].stored
        /\ resp[c].status = 200
        /\ Len(resp[c].body) = 4
        /\ redis[ScrollKey(resp[c].body[4][2])].value = obs[c].backend.returned

(* C13: a GET of a public scroll id that Redis does not hold, never given  *)
(* out or expired, is answered 404 "Scroll ID not found." and nothing is   *)
(* sent to the backend.                                                    *)
C13_ScrollIdNotFound ==
    \A c \in Conns :
        (SearchDone(c) /\ req[c].public_scroll_id # "" /\ obs[c].stored = "") =>
            /\ resp[c] = [status |-> 404, body |-> <<"details", "Scroll ID not found.">>]
            /\ obs[c].backend = NoBackend

(* A public scroll id that was given out at time 0 is not found once its   *)
(* TTL has run out.                                                        *)
C13_ScrollIdNotFound_witness ==
    \E c \in Conns :
        /\ SearchDone(c)
        /\ req[c].public_scroll_id \in PublicScrollIds
        /\ now >= pagination_expire
        /\ obs[c].stored = ""
        /\ resp[c].status = 404

BackendRaised(c) ==
    /\ obs[c].handled
    /\ obs[c].backend.path # ""
    /\ obs[c].backend.status = 0

(* C15: every request gets a response; an HTTP exception raised by the     *)
(* authenticator, the authorizer or the handler is answered with its       *)
(* status code and {"details": its text}, and any other exception, as when *)
(* the backend cannot be reached, with 500 "An unknown error occurred."    *)
C15_ErrorsConvertedToJson ==
    \A c \in Conns :
        pc[c] = "done" =>
            /\ resp[c].status \in {200, 401, 403, 404, 500}
            /\ BackendRaised(c)
                   <=> resp[c] = [status |-> 500, body |-> <<"details", UNKNOWN_ERROR>>]
            /\ ~obs[c].handled
                   => /\ resp[c].status \in {401, 403}
                      /\ resp[c].status = 403 <=> resp[c].body = <<"details", NOT_AUTHORIZED>>
                      /\ resp[c].status = 401
                             <=> \E text \in {NOT_PROVIDED, INCORRECT, MISSING_CONTENT_TYPE,
                                              MISSING_X_FORWARDED_PROTO} :
                                    resp[c].body = <<"details", text>>

(* The backend could not be reached during a search: 500.                  *)
C15_ErrorsConvertedToJson_witness ==
    \E c \in Conns :
        /\ pc[c] = "done"
        /\ BackendRaised(c)
        /\ resp[c] = [status |-> 500, body |-> <<"details", "An unknown error occurred.">>]

(* The indexes of a feed that do not have the alias.                       *)
WithoutAliasOf(feed_id) == indexes_matching_feeds(indexes \ aliased, {feed_id})

(* The cycle of the feed has completed: the alias swap of its index is     *)
(* done and the next cycle has not listed the indexes yet.                 *)
CycleCompleted(f) == feedpc[f] = "list" /\ swaps[f] >= 1 /\ feedidx[f] \in aliased

(* C16, as stated: whenever a cycle of a feed has completed, no index of   *)
(* a configured feed is without the alias.                                 *)
C16_NoIndexWithoutAlias ==
    \A f \in Feeds :
        CycleCompleted(f) => \A g \in Feeds : WithoutAliasOf(g) = {}

(* C16, amended: when a cycle of a feed has completed, the new index of    *)
(* the cycle has the alias and the only index of the feed without it is    *)
(* the older one that had it before the swap; once the deletion step of    *)
(* the feed's next cycle is done, no index of the feed is without the      *)
(* alias.                                                                  *)
C16_OnlyPredecessorWithoutAlias ==
    \A f \in Feeds :
        /\ CycleCompleted(f) =>
              /\ AliasedOf(f) = {feedidx[f]}
              /\ Cardinality(WithoutAliasOf(f)) <= 1
              /\ \A i \in WithoutAliasOf(f) : i[2] < feedidx[f][2]
        /\ feedpc[f] = "create" => WithoutAliasOf(f) = {}

(* A cycle has completed and the index that had the alias before it is     *)
(* still there, without the alias.                                         *)
C16_OnlyPredecessorWithoutAlias_witness ==
    \E f \in Feeds :
        /\ CycleCompleted(f)
        /\ swaps[f] >= 2
        /\ Cardinality(WithoutAliasOf(f)) = 1

(* C17: the deletion step of the supervisor deletes every index, with or  *)
(* without the alias, whose name carries the id of no configured feed, and *)
(* deletes no index of a configured feed; while the feed tasks run, no     *)
(* index of a feed that was removed from the configuration exists.         *)
C17_SupervisorDeletesUnconfigured ==
    /\ [][(suppc = "delete" /\ suppc' = "gather") =>
             /\ indexes' = {i \in indexes : FeedOf(i) \in Feeds}
             /\ aliased' = {i \in aliased : FeedOf(i) \in Feeds}]_vars
    /\ [](suppc = "gather" => \A i \in indexes : FeedOf(i) \notin RemovedFeeds)

(* The supervisor has deleted an index of the removed feed that had the    *)
(* alias and has kept an index of a configured feed that did not have it.  *)
C17_SupervisorDeletesUnconfigured_witness ==
    /\ suppc = "gather"
    /\ \A f \in Feeds : feedpc[f] = "list"
    /\ \E i \in supdel : FeedOf(i) \in RemovedFeeds /\ i \notin indexes
    /\ \E j \in indexes \ aliased : FeedOf(j) \in Feeds

(* The pages of a feed, from the seed on.                                  *)
RECURSIVE PagesFrom(_, _)
PagesFrom(feed, href) ==
    IF href = "" THEN <<>> ELSE <<href>> \o PagesFrom(feed, next_href(feed, href))

(* The feed is ingested: the index of its latest attempt holds every page, *)
(* is refreshed and has the alias.                                         *)
Ingested(f) ==
    /\ feedidx[f] \in aliased
    /\ feedidx[f] \in refreshed
    /\ docs[feedidx[f]] = PagesFrom(f, "page-1")

(* No name is left for a further index.                                    *)
NamesExhausted == nextid > MaxOldIndexes + MaxNewIndexes

(* C18: an attempt that a failed fetch, parse or bulk insert ended has not *)
(* refreshed its index nor given it the alias, and the alias of a feed     *)
(* moves only when a swap completes; the task sleeps the 60 s of the       *)
(* exception interval and is then run again from the start, with an index  *)
(* name never used before and from the seed URL; and after a failure,      *)
(* unless a later attempt fails as well, the feed is eventually ingested.  *)
C18_FailedAttemptRetried ==
    /\ [](\A f \in Feeds : feedpc[f] = "wait" =>
             feedidx[f] \notin refreshed /\ feedidx[f] \notin aliased)
    /\ [](\A f \in Feeds : (feedpc[f] = "fetch" /\ docs[feedidx[f]] = <<>>) =>
             feedhref[f] = "page-1")
    /\ [][\A f \in Feeds :
            /\ {i \in aliased' : i[1] = f} # {i \in aliased : i[1] = f} =>
                  feedpc[f] = "swap" /\ swaps'[f] = swaps[f] + 1
            /\ (feedpc[f] # "wait" /\ feedpc'[f] = "wait") =>
                  /\ feedsleep'[f] = 60
                  /\ swaps' = swaps /\ aliased' = aliased /\ refreshed' = refreshed
            /\ (feedpc[f] = "wait" /\ feedpc'[f] # "wait") =>
                  feedsleep[f] = 0 /\ feedpc'[f] = "list"
            /\ (feedpc[f] = "create" /\ feedpc'[f] # "create") =>
                  /\ feedidx'[f] \notin indexes
                  /\ feedidx'[f][2] > feedidx[f][2]
                  /\ feedpc'[f] = "mapping" => feedidx'[f] \in indexes']_vars
    /\ [](\A f \in Feeds : failures[f] <= MaxNewIndexes)
    /\ \A f \in Feeds : \A k \in 0..MaxNewIndexes :
          (feedpc[f] = "wait" /\ failures[f] = k)
              ~> (Ingested(f) \/ failures[f] > k \/ NamesExhausted)

(* An attempt of the feed of two pages failed, and a later attempt has     *)
(* ingested the feed.                                                      *)
C18_FailedAttemptRetried_witness ==
    /\ failures["feed-a"] >= 1
    /\ swaps["feed-a"] = 1
    /\ feedpc["feed-a"] = "list"
    /\ Ingested("feed-a")
    /\ ~NamesExhausted

(* C19: a task under the restart discipline that is cancelled ends, with   *)
(* no sleep and no further run of its coroutine; any other exception of    *)
(* the coroutine is followed by a sleep of 60 s and a new run.             *)
C19_CancellationIsTerminal ==
    /\ [](repeatobs.cancelled => (repeatpc = "ended" /\ ~repeatobs.rerun))
    /\ [][/\ (repeatpc = "run" /\ repeatobs'.outcome = "raised" /\ repeatpc' # "run") =>
                repeatpc' = "sleep" /\ repeatsleep' = 60
          /\ (repeatpc = "sleep" /\ repeatpc' = "run") => repeatsleep = 0]_vars

(* The lines of a payload as tests.py, line 594, reads them:               *)
(* content.split(b'\n')[0:-1].                                             *)
RECURSIVE split(_)
split(text) ==
    IF text = <<>> THEN << <<>> >>
    ELSE LET rest == split(Tail(text))
         IN  IF Head(text) = NL
             THEN << <<>> >> \o rest
             ELSE << <<Head(text)>> \o rest[1] >> \o Tail(rest)

Lines(text) == LET parts == split(text) IN SubSeq(parts, 1, Len(parts) - 1)

(* The keys of the dicts of a serialised value are in order, at any depth. *)
RECURSIVE KeysSorted(_)
KeysSorted(value) ==
    \/ ~IsDict(value)
    \/ /\ \A i \in 1..(Len(value.dict) - 1) :
             KeyRank(value.dict[i][1]) < KeyRank(value.dict[i + 1][1])
       /\ \A i \in 1..Len(value.dict) : KeysSorted(value.dict[i][2])

(* Two values hold the same data, whatever the order of their keys.        *)
RECURSIVE SameValue(_, _)
SameValue(a, b) ==
    IF IsDict(a)
    THEN /\ IsDict(b)
         /\ Len(a.dict) = Len(b.dict)
         /\ \A i \in 1..Len(a.dict) : \E j \in 1..Len(b.dict) :
               /\ a.dict[i][1] = b.dict[j][1]
               /\ SameValue(a.dict[i][2], b.dict[j][2])
    ELSE a = b

SerialisedLine(line, value) ==
    /\ Len(line) = 1
    /\ KeysSorted(line[1])
    /\ SameValue(value, line[1])

EndsWithOneNewline(text) ==
    /\ text # <<>>
    /\ text[Len(text)] = NL
    /\ Len(text) >= 2 => text[Len(text) - 1] # NL

(* The lines of the payload are the lines of the items: two per item, in   *)
(* the order of the items, the action before the source, keys sorted.      *)
LinesOfItems(text, items) ==
    /\ Len(Lines(text)) = 2 * Len(items)
    /\ \A i \in 1..Len(items) :
          /\ SerialisedLine(Lines(text)[2 * i - 1], items[i].action_and_metadata)
          /\ SerialisedLine(Lines(text)[2 * i], items[i].source)

(* C20, as stated: for every list of items, the empty one included, the    *)
(* payload ends with exactly one newline and its lines are the 2n lines of *)
(* the items.                                                              *)
C20_BulkPayloadLines ==
    es_bulk_contents # <<>> =>
        /\ EndsWithOneNewline(es_bulk_contents)
        /\ LinesOfItems(es_bulk_contents, es_bulk_items)

(* C20, amended: the payload ends with exactly one newline; for a list of  *)
(* n >= 1 items its lines are the 2n lines of the items, and for the empty *)
(* list it is the newline alone, which is one empty line and not none.     *)
C20_BulkPayloadLinesOfOneOrMore ==
    es_bulk_contents # <<>> =>
        /\ EndsWithOneNewline(es_bulk_contents)
        /\ Len(es_bulk_items) >= 1 => LinesOfItems(es_bulk_contents, es_bulk_items)
        /\ Len(es_bulk_items) = 0 =>
              /\ es_bulk_contents = <<NL>>
              /\ Lines(es_bulk_contents) = << <<>> >>

(* The payload of two items, the keys of the first of which were inserted  *)
(* out of order.                                                           *)
C20_BulkPayloadLinesOfOneOrMore_witness ==
    /\ es_bulk_contents # <<>>
    /\ Len(es_bulk_items) = 2
    /\ es_bulk_items[1] = BulkItem("2", TRUE, TRUE)
    /\ es_bulk_items[2] = BulkItem("1", FALSE, FALSE)
    /\ Len(Lines(es_bulk_contents)) = 4

(* The first line of the body of /check, and its line of a feed.           *)
CheckAnswered == check_response # NoCheckResponse
FirstLine == check_response.body[1]
FeedLine(i) == check_response.body[3 + i]

ApplicationRaised ==
    /\ suppc = "raised"
    /\ \A f \in Feeds : feedpc[f] = "raised"

(* C22: when Elasticsearch rejects the creation of the index or of its     *)
(* mapping, the application ends at once with the exception, and is not    *)
(* left waiting to try again.                                              *)
C22_RejectedSetUpEndsApplication ==
    [][\A f \in Feeds :
          (feedpc[f] \in {"create", "mapping"} /\ feedpc'[f] \notin {feedpc[f], "mapping", "fetch"})
              => ApplicationRaised']_vars

(* What the signature of the posted request was computed from: the        *)
(* canonical request under the digest of its string to sign.               *)
SignedCanonicalRequest == es_post.headers.Authorization.Signature[3][4][2]
SignedContentType == SignedCanonicalRequest[4][1][2]
SignedPayloadHash == SignedCanonicalRequest[6]

(* C23: the content type and the payload the signature of a bulk write is  *)
(* computed from are the Content-Type header, application/x-ndjson, and    *)
(* the body of the request sent, and the signed headers are content-type,  *)
(* host and x-amz-date, in that order.                                     *)
C23_SignedIsSent ==
    es_post # NoPost =>
        /\ es_post.headers.Content_Type = "application/x-ndjson"
        /\ SignedContentType = es_post.headers.Content_Type
        /\ SignedPayloadHash = <<"sha256", es_post.data>>
        /\ es_post.data = es_bulk_contents
        /\ es_post.headers.Authorization.SignedHeaders = <<"content-type", "host", "x-amz-date">>
        /\ SignedCanonicalRequest[5] = <<"content-type", "host", "x-amz-date">>
        /\ [i \in 1..3 |-> SignedCanonicalRequest[4][i][1]] = <<"content-type", "host", "x-amz-date">>
        /\ SignedCanonicalRequest[4][3][2] = es_post.headers.x_amz_date

(* The payload of two items has been signed and posted.                    *)
C23_SignedIsSent_witness ==
    /\ es_post # NoPost
    /\ Len(es_bulk_items) = 2
    /\ es_post.data = es_bulk_contents
    /\ es_post.headers.x_amz_date = "20120114T120001Z"

(* The nonce entry of the request of c: nonce-<key_id>-<nonce>, holding 1  *)
(* for the nonce time to live from now on.                                 *)
NonceKeyOf(c) == <<"nonce", req[c].authorization.id, req[c].authorization.nonce>>
NonceEntryWritten(c) ==
    /\ NonceKeyOf(c) \in NonceKeys
    /\ redis' = [redis EXCEPT ![NonceKeyOf(c)] = [value |-> "1", expires |-> now + NONCE_EXPIRE]]
    /\ redis' # redis

(* The steps of a request other than its replay check write no nonce       *)
(* entry, and a request rejected by a presence check or by the MAC         *)
(* verification leaves Redis as it was.                                    *)
NoNonceWrittenElsewhere(c) ==
    /\ (pc[c] = "authenticate" /\ pc'[c] # "authenticate") => redis' = redis
    /\ (pc[c] \in {"authorize", "handle"} /\ pc'[c] # pc[c])
           => \A k \in NonceKeys : redis'[k] = redis[k]

(* C24 as stated: every request that passes the MAC verification writes    *)
(* exactly one nonce entry, nonce-<key_id>-<nonce> with the nonce time to  *)
(* live, and a request rejected by a presence check or by the MAC          *)
(* verification leaves Redis unchanged.                                    *)
C24_VerifiedWritesOneNonce ==
    [][\A c \in Conns :
          /\ NoNonceWrittenElsewhere(c)
          /\ (pc[c] = "set_nonce" /\ pc'[c] # "set_nonce") => NonceEntryWritten(c)]_vars

(* C24, amended: a request that passes the MAC verification issues one SET *)
(* NX EX on nonce-<key_id>-<nonce>; when no such entry exists it writes    *)
(* exactly that entry, with the nonce time to live, and goes on; when the  *)
(* entry exists it writes nothing, Redis is unchanged and the request is   *)
(* answered 401.  A request rejected by a presence check or by the MAC     *)
(* verification leaves Redis unchanged.                                    *)
C24_VerifiedSetsNonceIfAbsent ==
    [][\A c \in Conns :
          /\ NoNonceWrittenElsewhere(c)
          /\ (pc[c] = "set_nonce" /\ pc'[c] # "set_nonce") =>
                /\ obs[c].mac_verified
                /\ IF redis[NonceKeyOf(c)].expires > now
                   THEN /\ redis' = redis
                        /\ pc'[c] = "done"
                        /\ resp'[c].status = 401
                   ELSE /\ NonceEntryWritten(c)
                        /\ pc'[c] = "authorize"]_vars

(* A request has written its nonce entry and was answered; the entry is    *)
(* there with the nonce time to live.                                      *)
C24_VerifiedSetsNonceIfAbsent_witness ==
    \E c \in Conns :
        /\ pc[c] = "done"
        /\ obs[c].nonce_written
        /\ redis[NonceKeyOf(c)] = [value |-> "1", expires |-> now + NONCE_EXPIRE]
        /\ \A k \in RedisKeys \ {NonceKeyOf(c)} : redis[k] = NoKey

(* Two connections whose requests are in progress at once and bear the    *)
(* same key id and nonce.                                                  *)
SameNonceInProgress(c, d) ==
    /\ c # d
    /\ pc[c] # "idle"
    /\ pc[d] # "idle"
    /\ NonceKeyOf(c) = NonceKeyOf(d)

(* C25: of two requests processed concurrently that bear the same key id   *)
(* and nonce, whatever the interleaving of their steps, at most one passes *)
(* the replay check and is forwarded to the handler.                       *)
C25_AtMostOneForwarded ==
    \A c, d \in Conns :
        SameNonceInProgress(c, d) =>
            /\ ~(obs[c].authenticated /\ obs[d].authenticated)
            /\ ~(pc[c] \in {"authorize", "handle"} /\ pc[d] \in {"authorize", "handle"})
            /\ ~(obs[c].handled /\ obs[d].handled)

(* Two requests with the same key id and nonce were in progress at once,   *)
(* both through the MAC verification; one was handled and the other found  *)
(* the nonce set and was answered 401.                                     *)
C25_AtMostOneForwarded_witness ==
    \E c, d \in Conns :
        /\ SameNonceInProgress(c, d)
        /\ obs[c].mac_verified /\ obs[d].mac_verified
        /\ pc[c] = "done" /\ obs[c].handled /\ resp[c].status = 200
        /\ pc[d] = "done" /\ ~obs[d].authenticated /\ resp[d].status = 401
        /\ obs[d].replay

(* C26: a process takes no ingestion step and polls no metrics before its *)
(* SET NX EX on the key lock has returned OK; a process that is refused    *)
(* sleeps the acquire interval of 1 s before it tries again, and does      *)
(* nothing else until then.                                                *)
C26_NothingBeforeLockAcquired ==
    /\ [](\A p \in Processes : lockobs[p].ingested => lockobs[p].acquired)
    /\ [][\A p \in Processes :
              lockpc[p].at = "acquire" =>
                 /\ ~lockobs[p].acquired
                 /\ lockobs'[p].ingested = lockobs[p].ingested
                 /\ lockpc'[p].at \in {"acquire", "extend", "exited"}
                 /\ (lockpc'[p].at = "acquire" /\ lockpc'[p] # lockpc[p]) =>
                        /\ now >= lockpc[p].wake
                        /\ RedisExists(redis, LockKey, now)
                        /\ redis' = redis
                        /\ lockpc'[p].wake = now + 1
                 /\ lockpc'[p].at = "extend" =>
                        /\ now >= lockpc[p].wake
                        /\ ~RedisExists(redis, LockKey, now)
                        /\ redis'[LockKey] = [value |-> "1", expires |-> now + ttl]
                        /\ lockobs'[p].acquired]_vars

(* A process was refused the lock, slept, was given it when the key had    *)
(* run out, and has ingested since.                                        *)
C26_NothingBeforeLockAcquired_witness ==
    \E p, q \in Processes :
        /\ p # q
        /\ lockobs[q].acquired
        /\ lockobs[p].acquired /\ lockobs[p].ingested
        /\ lockpc[p] = [at |-> "extend", wake |-> now + extend_interval]
        /\ now >= ttl + aquire_interval

(* How far along UNLOCKED, ACQUIRING, HOLDING, LOST a process is: in its    *)
(* acquire loop before its first SET NX and after it, past the loop with   *)
(* no refresh refused so far, and with a refresh refused.                  *)
LockState(p) ==
    IF lockpc[p].at = "acquire" THEN (IF lockpc[p].wake = 0 THEN 0 ELSE 1)
    ELSE IF lockpc[p].at = "exited" THEN (IF lockobs[p].lost THEN 3 ELSE IF lockobs[p].acquired THEN 2 ELSE 1)
    ELSE IF lockobs[p].lost THEN 3
    ELSE 2

(* C27: the lock state of a process only moves forward along UNLOCKED,     *)
(* ACQUIRING, HOLDING, LOST: it issues SET NX on the lock key in its       *)
(* initial acquire loop only, and once it has acquired the lock or lost it *)
(* it never attempts to acquire it again, nor does a step of it set the    *)
(* key when the key is gone.                                               *)
C27_LockStateMovesForward ==
    /\ [](\A p \in Processes :
             /\ lockobs[p].lost => lockobs[p].acquired
             /\ lockpc[p].at \in {"extend", "extend_wait"} => lockobs[p].acquired
             /\ lockpc[p].at = "extend_wait" => lockobs[p].lost)
    /\ [][\A p \in Processes :
              /\ LockState(p)' >= LockState(p)
              /\ lockpc'[p].at = "acquire" => lockpc[p].at = "acquire"
              /\ (lockobs[p].acquired \/ lockobs[p].lost) =>
                    /\ lockpc'[p].at # "acquire"
                    /\ lockpc'[p] # lockpc[p] =>
                          (~RedisExists(redis, LockKey, now) => ~RedisExists(redis', LockKey, now))]_vars

(* A process lost the lock and has refreshed since, with the key gone: its *)
(* refresh was refused again, and it has not set the key.                  *)
C27_LockStateMovesForward_witness ==
    \E p \in Processes :
        /\ lockobs[p].lost
        /\ lockobs[p].expire_after_loss
        /\ lockpc[p].at = "extend_wait"
        /\ ~RedisExists(redis, LockKey, now)
        /\ \A q \in Processes \ {p} : ~lockobs[q].acquired

(* No live process refreshes the lock key: every process that got past    *)
(* its acquire loop has been destroyed.                                    *)
NoLiveHolder == \A q \in Processes : ~PastAcquire(q)
HolderDied == \E q \in Processes : lockpc[q].at = "exited" /\ lockobs[q].acquired

AttemptOrder ==
    {<<"list", "delete">>, <<"delete", "create">>, <<"create", "mapping">>,
     <<"mapping", "fetch">>, <<"fetch", "bulk">>, <<"bulk", "fetch">>,
     <<"bulk", "refresh">>, <<"refresh", "swap">>, <<"swap", "list">>}
AttemptEnds ==
    {<<at, "wait">> : at \in {"create", "mapping", "fetch", "bulk", "swap"}}
        \cup {<<"wait", "list">>, <<"idle", "list">>}

(* The index of the attempt of f holds every page of the feed.             *)
EveryPageIngested(f) == docs[feedidx[f]] = PagesFrom(f, seed(f))

(* C29: within one attempt the steps come in the order: the indexes of the *)
(* feed without the alias are deleted, the new index is created, its       *)
(* mapping installed, every page ingested, the index refreshed, the alias  *)
(* moved.  The alias never moves to an index that is not refreshed, nor    *)
(* before the bulk insert of the last page, the one with no next href.     *)
C29_AttemptStepsInOrder ==
    [][\A f \in Feeds :
          /\ feedpc'[f] # feedpc[f] => <<feedpc[f], feedpc'[f]>> \in AttemptOrder \cup AttemptEnds
          /\ (feedpc[f] = "delete" /\ feedpc'[f] = "create") =>
                /\ indexes' = indexes \ feeddel[f]
                /\ feedidx'[f] = feedidx[f]
          /\ (feedpc[f] = "create" /\ feedpc'[f] = "mapping") =>
                /\ feedidx'[f] \notin indexes
                /\ indexes' = indexes \cup {feedidx'[f]}
                /\ docs'[feedidx'[f]] = <<>>
          /\ (feedpc[f] = "mapping" /\ feedpc'[f] = "fetch") =>
                /\ feedhref'[f] = seed(f)
                /\ docs' = docs
          /\ (feedpc[f] = "bulk" /\ feedpc'[f] = "refresh") =>
                /\ next_href(f, feedhref[f]) = ""
                /\ EveryPageIngested(f)'
                /\ feedidx[f] \notin refreshed'
          /\ (feedpc[f] = "refresh" /\ feedpc'[f] = "swap") =>
                /\ EveryPageIngested(f)
                /\ feedidx[f] \in refreshed'
                /\ aliased' = aliased
          /\ (feedpc[f] = "swap" /\ feedpc'[f] = "list") =>
                /\ EveryPageIngested(f)
                /\ feedidx[f] \in refreshed
                /\ feedidx[f] \in aliased'
          /\ \A i \in aliased' \ aliased :
                FeedOf(i) = f =>
                    /\ feedpc[f] = "swap"
                    /\ i = feedidx[f]
                    /\ i \in refreshed
                    /\ EveryPageIngested(f)]_vars

(* The feed of two pages has gone through a whole attempt without a        *)
(* failure: its index holds both pages, is refreshed and has the alias.    *)
C29_AttemptStepsInOrder_witness ==
    /\ feedpc["feed-a"] = "list"
    /\ swaps["feed-a"] = 1
    /\ failures["feed-a"] = 0
    /\ Len(docs[feedidx["feed-a"]]) = 2
    /\ feedidx["feed-a"] \in refreshed \cap aliased

(* The pages in the index of the attempt of f, followed by the chain from  *)
(* the href the walk is at, are the chain from the seed: every page before *)
(* the href is in the index once, in the order of the chain, and no other. *)
WalkedUpTo(f, href) == docs[feedidx[f]] \o PagesFrom(f, href) = PagesFrom(f, seed(f))

(* C30: within one feed a page is fetched only when every page before it   *)
(* in the chain has been bulk-inserted; a fetched page is inserted once,   *)
(* into the index of the attempt, before the walk goes on, so that the     *)
(* index receives the pages in the order of the chain from the seed, each  *)
(* once; and the walk ends at the first page that has no next href.        *)
C30_PagesWalkedInChainOrder ==
    /\ [](\A f \in Feeds :
             /\ feedpc[f] \in {"fetch", "bulk"} => (feedhref[f] # "" /\ WalkedUpTo(f, feedhref[f]))
             /\ feedpc[f] \in {"refresh", "swap"} => (feedhref[f] = "" /\ WalkedUpTo(f, "")))
    /\ [][\A f \in Feeds :
              /\ (feedpc[f] = "fetch" /\ feedpc'[f] = "bulk") =>
                    /\ docs' = docs
                    /\ feedhref'[f] = feedhref[f]
              /\ (feedpc[f] = "bulk" /\ feedpc'[f] \in {"fetch", "refresh"}) =>
                    /\ docs' = [docs EXCEPT ![feedidx[f]] = Append(@, feedhref[f])]
                    /\ feedidx'[f] = feedidx[f]
                    /\ feedhref'[f] = next_href(f, feedhref[f])
                    /\ (feedpc'[f] = "refresh") = (next_href(f, feedhref[f]) = "")
              /\ feedpc'[f] = "fetch" => feedpc[f] \in {"fetch", "mapping", "bulk"}
              /\ (feedpc[f] = "mapping" /\ feedpc'[f] = "fetch") =>
                    (feedhref'[f] = seed(f) /\ docs[feedidx[f]] = <<>>)
              /\ \A i \in IndexNames :
                    (FeedOf(i) = f /\ docs'[i] # docs[i] /\ docs'[i] # <<>>)
                        => (feedpc[f] = "bulk" /\ i = feedidx[f])]_vars

(* The walk of the feed of two pages has ended: both were fetched and      *)
(* inserted, in the order of the chain, and the index is yet to be         *)
(* refreshed.                                                              *)
C30_PagesWalkedInChainOrder_witness ==
    /\ feedpc["feed-a"] = "refresh"
    /\ docs[feedidx["feed-a"]] = <<"page-1", "page-2">>
    /\ feedhref["feed-a"] = ""
    /\ feedidx["feed-a"] \notin refreshed

(* The indexes reads of the feed are served by: those of the feed that     *)
(* carry the alias.                                                        *)
AliasTarget(f) == {i \in aliased : FeedOf(i) = f}

(* A swap of the feed completes in this step.                              *)
SwapCompletes(f) == feedpc[f] = "swap" /\ feedpc'[f] = "list" /\ swaps'[f] = swaps[f] + 1

(* C31: between two consecutive alias swaps of a feed the indexes that     *)
(* carry the alias for the feed do not change: the deletion of the indexes *)
(* without the alias, the creation of the new index, its mapping, the bulk *)
(* inserts, the refresh, a failed attempt and its restart, and every step  *)
(* of another feed or of the supervisor leave them as they are; a swap     *)
(* that completes puts the index of the attempt in their place.            *)
C31_AliasTargetChangesAtSwapOnly ==
    [][\A f \in Feeds :
          /\ ~SwapCompletes(f) => AliasTarget(f)' = AliasTarget(f)
          /\ SwapCompletes(f) => AliasTarget(f)' = {feedidx[f]}
          /\ (feedpc[f] \in {"delete", "create", "mapping", "fetch", "bulk", "refresh", "wait"}
                 /\ feedpc'[f] # feedpc[f]) => AliasTarget(f)' = AliasTarget(f)
          /\ (feedpc'[f] = "wait" /\ feedpc[f] # "wait") => AliasTarget(f)' = AliasTarget(f)]_vars

(* The feed that started with an index carrying the alias is in its second *)
(* attempt after a failed one, has deleted, created and inserted, and the  *)
(* alias is still on the index it started with.                            *)
C31_AliasTargetChangesAtSwapOnly_witness ==
    /\ failures["feed-a"] = 1
    /\ swaps["feed-a"] = 0
    /\ feedpc["feed-a"] = "swap"
    /\ AliasTarget("feed-a") = {IndexName("feed-a", 1)}
    /\ feedidx["feed-a"] \in refreshed \ aliased

(* The clean-up of an attempt of f takes its step.                         *)
CleanUp(f) == feedpc[f] = "delete" /\ feedpc'[f] = "create"

(* C32: the clean-up at the start of an attempt deletes only indexes that  *)
(* lack the alias and carry the marker of this feed: no index that holds   *)
(* the alias, and no index of another configured feed, the new index that  *)
(* feed is populating at the time included.                                *)
C32_CleanUpDeletesOwnWithoutAlias ==
    [][\A f \in Feeds :
          CleanUp(f) =>
              /\ \A i \in indexes \ indexes' : FeedOf(i) = f /\ i \notin aliased
              /\ aliased' = aliased
              /\ \A g \in Feeds \ {f} :
                    /\ indexes_matching_feeds(indexes', {g}) = indexes_matching_feeds(indexes, {g})
                    /\ feedidx[g] \in indexes => feedidx[g] \in indexes'
                    /\ feedidx[g] \in indexes => docs'[feedidx[g]] = docs[feedidx[g]]
              /\ \A i \in indexes' : docs'[i] = docs[i] /\ (i \in refreshed' <=> i \in refreshed)]_vars

(* The feed of two pages is past the clean-up of its second attempt, with  *)
(* no index of its own left but the one with the alias, while the index    *)
(* the other feed has inserted its page into, not yet with the alias, is   *)
(* still there.                                                            *)
C32_CleanUpDeletesOwnWithoutAlias_witness ==
    /\ feedpc["feed-a"] = "create"
    /\ failures["feed-a"] = 1
    /\ nextid >= MaxOldIndexes + 3
    /\ indexes_matching_feeds(indexes, {"feed-a"}) = {IndexName("feed-a", 1)}
    /\ IndexName("feed-a", 1) \in aliased
    /\ feedpc["feed-b"] = "refresh"
    /\ feedidx["feed-b"] \in indexes \ aliased
    /\ docs[feedidx["feed-b"]] # <<>>

(* C33: when an attempt of a feed completes its alias swap, the ingester   *)
(* sets the status flag of the feed in Redis to GREEN, with a time to      *)
(* live, so that /check reports the feed GREEN after a successful cycle.   *)
C33_SwapSetsFeedGreen ==
    [][\A f \in Feeds :
          SwapCompletes(f) =>
              /\ redis'[FeedStatusKey(f)].value = "GREEN"
              /\ RedisExists(redis', FeedStatusKey(f), now)]_vars


(* The queries of the present poll that answered metrics-unavailable.      *)
UnavailableQueries == {q \in MetricsQueries : es_metrics[q] = "unavailable"}
AllGauges == UNION {GaugesOf(q) : q \in MetricsQueries}

(* C34: in a poll where exactly one query signals metrics-unavailable,     *)
(* the poll does not raise, and once it has written the payload every      *)
(* gauge but those of that query has been set and the payload holds them.  *)
C34_OnlyUnavailableGaugeSkipped ==
    \A q \in MetricsQueries :
        UnavailableQueries = {q} =>
            /\ metricspc # "raised"
            /\ metricspc \in {"saved", "slept"} =>
                  /\ metrics = AllGauges \ GaugesOf(q)
                  /\ metrics_written = metrics


(* C35: once a request has passed raven_reporter, captureException has     *)
(* been called exactly once if the handler raised an exception that is not *)
(* an HTTP 2xx/3xx/4xx exception, and not at all if it raised one of       *)
(* those, which then goes up unchanged and is turned into JSON.            *)
C35_ReportedOncePerNonHTTPException ==
    (ravenpc \in {"converter", "done"} /\ raven_escaped # NoException) =>
        IF IsHTTP2xx3xx4xx(raven_escaped)
        THEN /\ raven_captured = 0
             /\ raven_raised = raven_escaped
             /\ ravenpc = "done" =>
                   raven_response = json_response(<<"details", raven_escaped.text>>,
                                                  raven_escaped.status_code)
        ELSE raven_captured = 1


(* C36: whatever ends a run of the coroutine, a return included, the loop  *)
(* then sleeps EXCEPTION_INTERVAL seconds; it runs the coroutine again     *)
(* only once those seconds are over; it ends only by a cancellation during *)
(* the sleep; and after a return the coroutine does run again, unless the  *)
(* task is cancelled meanwhile.                                            *)
C36_ReturnedIsRunAgainAfterInterval ==
    /\ [][(repeatpc = "run" /\ repeatpc' # "run") =>
              (repeatpc' = "sleep" /\ repeatsleep' = EXCEPTION_INTERVAL)]_vars
    /\ [][(repeatpc = "sleep" /\ repeatpc' = "run") => repeatsleep = 0]_vars
    /\ [][(repeatpc # "ended" /\ repeatpc' = "ended") =>
              (repeatpc = "sleep" /\ repeatobs'.outcome = "cancelled")]_vars
    /\ (repeatpc = "sleep" /\ repeatobs.outcome = "returned")
          ~> (repeatpc = "run" \/ repeatpc = "ended" \/ repeatobs.runs = MaxRuns)

(* The coroutine returned, the loop slept, and the coroutine runs again.   *)
C36_ReturnedIsRunAgainAfterInterval_witness ==
    /\ repeatpc = "run"
    /\ repeatobs.outcome = "returned"
    /\ repeatobs.runs >= 2
    /\ repeatobs.slept
    /\ ~repeatobs.cancelled


(* The requests of c and of d carry the same Authorization header and     *)
(* both have passed authentication, each writing the nonce entry.          *)
BothAccepted(c, d) ==
    /\ obs[c].authenticated /\ obs[c].nonce_written
    /\ obs[d].authenticated /\ obs[d].nonce_written
    /\ req[c].authorization = req[d].authorization

(* C37: with a nonce TTL of 120 s and a skew of 60 s, no Authorization     *)
(* header passes authentication twice, at whatever instants it is          *)
(* presented: whenever the nonce entry of an accepted header has expired,  *)
(* the timestamp of the header is outside the skew.                        *)
C37_HeaderAcceptedOnce ==
    /\ \A c, d \in Conns : c # d => ~BothAccepted(c, d)
    /\ \A c \in Conns :
          (/\ obs[c].authenticated
           /\ obs[c].nonce_written
           /\ ~RedisExists(redis, nonce_key_of(req[c]), now)) =>
              ~within_skew(req[c].authorization.ts, now)

(* C38: the authorizer is reached only from the nonce check, with the      *)
(* nonce entry of the request written; a request answered 403 has          *)
(* therefore passed authentication and written its entry; a request whose  *)
(* MAC verifies and whose nonce entry exists, as that of a request         *)
(* answered 403 does within the TTL, is answered 401; and a request that   *)
(* has not passed authentication is answered 401, never 403.               *)
C38_AuthenticationBeforeAuthorization ==
    /\ [][\A c \in Conns :
            (pc[c] # "authorize" /\ pc'[c] = "authorize") =>
                /\ pc[c] = "set_nonce"
                /\ obs'[c].authenticated
                /\ obs'[c].nonce_written
                /\ RedisExists(redis', nonce_key_of(req[c]), now)]_vars
    /\ [](\A c \in Conns :
            pc[c] = "done" =>
                /\ resp[c].status = 403 => (obs[c].authenticated /\ obs[c].nonce_written)
                /\ (obs[c].mac_verified /\ obs[c].replay) => resp[c].status = 401
                /\ ~obs[c].authenticated => resp[c].status = 401)

(* A request was answered 403; the same request, replayed while its nonce  *)
(* entry exists, is answered 401.                                          *)
C38_AuthenticationBeforeAuthorization_witness ==
    /\ pc["c1"] = "done"
    /\ obs["c1"].mac_verified
    /\ obs["c1"].replay
    /\ obs["c1"].prior.status = 403
    /\ obs["c1"].prior.method = req["c1"].method
    /\ resp["c1"].status = 401


(* C39: no process extends the TTL of a lock key that another process      *)
(* set, least of all a process whose refresh has found the lock lost:      *)
(* EXPIRE succeeds on the key only for the process whose SET NX made it.   *)
C39_ExpireOnlyByHolder ==
    \A p \in Processes :
        /\ ~lockobs[p].extended_other_after_loss
        /\ ~lockobs[p].extended_other


(* What the task of a feed holds, and what Elasticsearch holds for it.     *)
TaskOf(f) ==
    <<feedpc[f], feedidx[f], feedhref[f], feeddel[f], feedsleep[f], failures[f], swaps[f]>>
IndexesOf(f) == {i \in indexes : FeedOf(i) = f}
ContentsOf(f) == [i \in {j \in IndexNames : FeedOf(j) = f} |-> <<docs[i], i \in refreshed>>]

(* A step of the task of f: its failure, its sleep, its restart, or any    *)
(* step of an attempt.                                                     *)
StepOfTask(f) == suppc = "gather" /\ TaskOf(f)' # TaskOf(f)
FailsOrRestarts(f) ==
    \/ failures'[f] = failures[f] + 1
    \/ (feedpc[f] = "wait" /\ TaskOf(f)' # TaskOf(f))

(* C40: a step of the task of one feed, its failure and its restart        *)
(* included, leaves the task of every other feed where it is, with its     *)
(* indexes, their contents and its alias target, and leaves the supervisor *)
(* in its gather, the indexes of unconfigured feeds not collected again;   *)
(* and while one feed waits to be restarted, the task of another feed that *)
(* is in the middle of an attempt can take its next step (the creation of  *)
(* an index, as long as the model has a name left for it).                 *)
C40_FeedTasksAreIsolated ==
    /\ [][\A f \in Feeds :
            (StepOfTask(f) \/ FailsOrRestarts(f)) =>
                /\ suppc' = "gather"
                /\ supdel' = supdel
                /\ \A g \in Feeds \ {f} :
                      /\ TaskOf(g)' = TaskOf(g)
                      /\ IndexesOf(g)' = IndexesOf(g)
                      /\ ContentsOf(g)' = ContentsOf(g)
                      /\ AliasTarget(g)' = AliasTarget(g)]_vars
    /\ [](\A f, g \in Feeds :
            (/\ f # g
             /\ feedpc[f] = "wait"
             /\ feedpc[g] \notin {"idle", "wait"}
             /\ ~(feedpc[g] = "create" /\ NamesExhausted))
                => ENABLED FeedStep(g))

(* One feed has failed and has been restarted, while the other, which has  *)
(* never failed, is in the middle of its attempt with its index in place.  *)
C40_FeedTasksAreIsolated_witness ==
    /\ failures["feed-a"] = 1
    /\ feedpc["feed-a"] = "create"
    /\ failures["feed-b"] = 0
    /\ feedpc["feed-b"] = "refresh"
    /\ feedidx["feed-b"] \in indexes
    /\ suppc = "gather"

====
